---- MODULE Spec2Model ----
(***************************************************************************)
(* Versioned artifact repository: the object-store-only backend            *)
(* (versioned/s3_only_backend.py) and the hybrid object-store + index      *)
(* backend (versioned/s3_and_dynamodb_backend.py).                         *)
(*                                                                         *)
(* Strings are sequences of one-character strings, so that padding,        *)
(* stripping, splitting and lexicographic key order are computed the way   *)
(* the code computes them.  The optional metadata / tags / content_type    *)
(* arguments of put_artifact keep their defaults (NOTHING), and the        *)
(* repository suffix keeps its default "".                                 *)
(***************************************************************************)
EXTENDS Integers, Sequences, FiniteSets, TLC

(***************************************************************************)
(* Bounds of the model                                                     *)
(***************************************************************************)
\* publish_artifact_version is not taken once the next number would exceed this
MaxVersion == 2
\* the wall clock (seconds) stops advancing here
MaxClock == 1
\* the version codecs are applied to every number up to this one (and to the
\* numbers around the powers of ten)
MaxSample == 30
\* the alias partition key is computed for every artifact name up to this length
MaxNameLen == 3

(***************************************************************************)
(* Program constants                                                       *)
(***************************************************************************)
VERSION_ZFILL == 6
LATEST_VERSION == <<"L", "A", "T", "E", "S", "T">>
METADATA_KEY_ARTIFACT_SHA256 == "artifact_sha256"

(***************************************************************************)
(* Python string primitives                                                *)
(***************************************************************************)
\* the characters that occur in keys, in code-point order
Alphabet ==
  <<"-", ".", "/", "0", "1", "2", "3", "4", "5", "6", "7", "8", "9",
    "A", "E", "L", "S", "T", "_",
    "a", "e", "i", "j", "l", "n", "o", "p", "q", "r", "s", "v", "x", "y">>

Ord(c) == CHOOSE i \in 1..Len(Alphabet) : Alphabet[i] = c

DigitChars == <<"0", "1", "2", "3", "4", "5", "6", "7", "8", "9">>

IsDigit(c) == \E i \in 1..10 : DigitChars[i] = c

DigitVal(c) == (CHOOSE i \in 1..10 : DigitChars[i] = c) - 1

\* a < b in the byte order used by str comparison, S3 listings and sort keys
RECURSIVE StrLess(_, _)
StrLess(a, b) ==
  IF b = <<>> THEN FALSE
  ELSE IF a = <<>> THEN TRUE
  ELSE IF Head(a) = Head(b) THEN StrLess(Tail(a), Tail(b))
  ELSE Ord(Head(a)) < Ord(Head(b))

StartsWith(s, p) == Len(p) <= Len(s) /\ SubSeq(s, 1, Len(p)) = p

EndsWith(s, p) ==
  Len(p) <= Len(s) /\ SubSeq(s, Len(s) - Len(p) + 1, Len(s)) = p

Contains(s, c) == \E i \in 1..Len(s) : s[i] = c

\* "0" * n
RECURSIVE Zeros(_)
Zeros(n) == IF n <= 0 THEN <<>> ELSE <<"0">> \o Zeros(n - 1)

\* str(n) for an int n >= 0
RECURSIVE IntToStr(_)
IntToStr(n) ==
  IF n < 10 THEN <<DigitChars[n + 1]>>
  ELSE IntToStr(n \div 10) \o <<DigitChars[(n % 10) + 1]>>

\* s.zfill(w)
ZFill(s, w) == Zeros(w - Len(s)) \o s

\* s.lstrip("0")
RECURSIVE LStripZeros(_)
LStripZeros(s) ==
  IF s # <<>> /\ Head(s) = "0" THEN LStripZeros(Tail(s)) ELSE s

\* int(s) succeeds
IsIntStr(s) == s # <<>> /\ \A i \in 1..Len(s) : IsDigit(s[i])

\* int(s) for a string of decimal digits
RECURSIVE StrToInt(_)
StrToInt(s) ==
  IF s = <<>> THEN 0
  ELSE 10 * StrToInt(SubSeq(s, 1, Len(s) - 1)) + DigitVal(s[Len(s)])

\* s.split(sep): the sequence of fields
RECURSIVE Split(_, _)
Split(s, sep) ==
  IF ~Contains(s, sep) THEN <<s>>
  ELSE LET i == CHOOSE k \in 1..Len(s) :
                  s[k] = sep /\ \A m \in 1..(k - 1) : s[m] # sep
       IN  <<SubSeq(s, 1, i - 1)>> \o Split(SubSeq(s, i + 1, Len(s)), sep)

\* the elements of a finite set of strings in ascending byte order
RECURSIVE SortAsc(_)
SortAsc(S) ==
  IF S = {} THEN <<>>
  ELSE LET m == CHOOSE x \in S : \A y \in S \ {x} : StrLess(x, y)
       IN  <<m>> \o SortAsc(S \ {m})

Reverse(q) == [i \in 1..Len(q) |-> q[Len(q) + 1 - i]]

Take(q, n) == SubSeq(q, 1, IF Len(q) < n THEN Len(q) ELSE n)


(***************************************************************************)
(* Inputs                                                                  *)
(***************************************************************************)
\* a version argument: None, an int, or a str
NoneArg == [t |-> "none"]
IntArg(n) == [t |-> "int", v |-> n]
StrArg(s) == [t |-> "str", v |-> s]

\* str(version) for an int or str argument
PyStr(a) == IF a.t = "int" THEN IntToStr(a.v) ELSE a.v

\* artifact contents (bytes)
Contents == {<<"x">>, <<"y">>}

\* hashes.of_bytes(content): the SHA-256 hex digest
Sha256(content) == <<"sha256:">> \o content

\* the entity tag S3 gives an object: the MD5 digest of its body
ETagOf(body) == <<"md5:">> \o body

\* an attribute or a hash that is not there (None)
NoSha == <<>>
NoWeight == -1
NoVersion == <<"N", "o", "n", "e">>

(***************************************************************************)
(* Version codec of the index backend                                      *)
(***************************************************************************)
\* an encoding that is the version as it is written, without padding
dynamodb_encode_version_unpadded(a) == PyStr(a)

\* dynamodb.encode_version of dynamodb.py: str(version).zfill(VERSION_ZFILL)
dynamodb_encode_version(a) == ZFill(PyStr(a), VERSION_ZFILL)

\* dynamodb.encode_version_sk: the sort key of a version
encode_version_sk(a) ==
  IF a.t = "none" THEN LATEST_VERSION
  ELSE dynamodb_encode_version(a)

\* dynamodb.encode_version / utils.encode_version: the canonical version
encode_version(a) ==
  IF a.t = "none" THEN LATEST_VERSION
  ELSE LStripZeros(PyStr(a))

\* a version property that returns the sort key as it is stored
decode_version_sk_as_stored(sk) == sk

\* dynamodb.Artifact.version / decode of a sort key
decode_version_sk(sk) == LStripZeros(sk)

\* dynamodb.encode_alias_pk: the partition key of the aliases of an artifact
encode_alias_pk(name) == <<"_", "_">> \o name \o <<"-", "a", "l", "i", "a", "s">>

\* dynamodb.Alias.name: "-".join(pk.split("-")[:-1])[2:]
RECURSIVE JoinHyphen(_)
JoinHyphen(parts) ==
  IF parts = <<>> THEN <<>>
  ELSE IF Len(parts) = 1 THEN parts[1]
  ELSE parts[1] \o <<"-">> \o JoinHyphen(Tail(parts))

\* a name property that takes the first hyphen-separated field of the key
decode_alias_pk_first_field(pk) ==
  LET f == Split(pk, "-")[1]
  IN  SubSeq(f, 3, Len(f))

decode_alias_pk(pk) ==
  LET parts == Split(pk, "-")
      j == JoinHyphen(SubSeq(parts, 1, Len(parts) - 1))
  IN  SubSeq(j, 3, Len(j))

(***************************************************************************)
(* Version codec of the object-store-only backend                          *)
(***************************************************************************)
\* s3_only_backend.encode_version
s3only_encode_version(a) == IF a.t = "none" THEN LATEST_VERSION ELSE PyStr(a)

Pow10(n) == 10 ^ n

\* s3_only_backend.encode_filename; int(version) raises ValueError on a
\* version that is no decimal number
encode_filename_ok(a) ==
  LET version == s3only_encode_version(a)
  IN  version = LATEST_VERSION \/ IsIntStr(version)

\* an encode_filename that does not pad the complement
encode_filename_complement_unpadded(a) ==
  LET version == s3only_encode_version(a)
  IN  IF version = LATEST_VERSION
      THEN Zeros(VERSION_ZFILL) \o <<"_">> \o LATEST_VERSION
      ELSE IntToStr(Pow10(VERSION_ZFILL) - StrToInt(version))
             \o <<"_">> \o ZFill(version, VERSION_ZFILL)

encode_filename(a) ==
  LET version == s3only_encode_version(a)
  IN  IF version = LATEST_VERSION
      THEN Zeros(VERSION_ZFILL) \o <<"_">> \o LATEST_VERSION
      ELSE ZFill(IntToStr(Pow10(VERSION_ZFILL) - StrToInt(version)), VERSION_ZFILL)
             \o <<"_">> \o ZFill(version, VERSION_ZFILL)

\* a decoding that returns the field after the underscore as it is stored
decode_filename_second_field(fname) ==
  IF StartsWith(fname, Zeros(VERSION_ZFILL))
  THEN [ok |-> TRUE, v |-> LATEST_VERSION]
  ELSE LET parts == Split(fname, "_")
       IN  IF Len(parts) < 2 THEN [ok |-> FALSE, err |-> "IndexError"]
           ELSE [ok |-> TRUE, v |-> parts[2]]

\* s3_only_backend.decode_filename: [ok, v] or the exception it raises
decode_filename(fname) ==
  IF StartsWith(fname, Zeros(VERSION_ZFILL))
  THEN [ok |-> TRUE, v |-> LATEST_VERSION]
  ELSE LET parts == Split(fname, "_")
       IN  IF Len(parts) < 2 THEN [ok |-> FALSE, err |-> "IndexError"]
           ELSE IF ~IsIntStr(parts[2]) THEN [ok |-> FALSE, err |-> "ValueError"]
           ELSE [ok |-> TRUE, v |-> IntToStr(StrToInt(parts[2]))]


(***************************************************************************)
(* State                                                                   *)
(***************************************************************************)
VARIABLES
  backend,  \* which Repository class was constructed
  s3,       \* the bucket: object key -> [body, metadata, last_modified]
  ddb,      \* the table: <<pk, sk>> -> item (attribute name -> value)
  clock,    \* the wall clock, in seconds
  ret,      \* what the last call returned or raised
  hist,     \* what publish_artifact_version has returned so far
  call      \* the calls of publish_artifact_version that run step by step

vars == <<backend, s3, ddb, clock, ret, hist, call>>

S3_ONLY == "s3_only_backend"
S3_AND_DYNAMODB == "s3_and_dynamodb_backend"

(***************************************************************************)
(* The object store (S3, through s3pathlib)                                *)
(***************************************************************************)
EmptyStore == [k \in {} |-> 0]

S3Exists(S, key) == key \in DOMAIN S

\* put_object / write_bytes / write_text
S3Write(S, key, body, metadata, now) ==
  [k \in DOMAIN S \cup {key} |->
     IF k = key
     THEN [body |-> body, metadata |-> metadata, last_modified |-> now]
     ELSE S[k]]

\* a copy_object that would leave an object already at dst as it is
S3CopyIfAbsent(S, src, dst, now) ==
  IF dst \in DOMAIN S THEN S
  ELSE [k \in DOMAIN S \cup {dst} |->
          IF k = dst
          THEN [body |-> S[src].body, metadata |-> S[src].metadata,
                last_modified |-> now]
          ELSE S[k]]

\* copy_object: a server-side copy keeps the body (hence the etag) and the metadata
S3Copy(S, src, dst, now) ==
  [k \in DOMAIN S \cup {dst} |->
     IF k = dst
     THEN [body |-> S[src].body, metadata |-> S[src].metadata,
           last_modified |-> now]
     ELSE S[k]]

\* S3Path.copy_to(dst, overwrite = True): nothing asks whether dst is there
copy_to_overwrite_error(S, src, dst) ==
  IF ~S3Exists(S, src) THEN "ClientError" ELSE ""

\* S3Path.copy_to(dst) with its default overwrite = False: the exception it
\* raises, or "". It first asks whether dst is there (FileExistsError), and
\* CopyObject then fails on a source that is not there (ClientError)
copy_to_error(S, src, dst) ==
  IF S3Exists(S, dst) THEN "FileExistsError"
  ELSE IF ~S3Exists(S, src) THEN "ClientError"
  ELSE ""

\* delete_object: deleting a missing key is no error
S3Delete(S, key) == [k \in DOMAIN S \ {key} |-> S[k]]

\* S3Path.delete on a directory: every object under the prefix
S3DeleteDir(S, prefix) ==
  [k \in {x \in DOMAIN S : ~StartsWith(x, prefix)} |-> S[k]]

\* list_objects_v2 under a prefix: keys in ascending byte order
S3IterObjects(S, prefix) == SortAsc({k \in DOMAIN S : StartsWith(k, prefix)})

S3ETag(S, key) == ETagOf(S[key].body)

\* S3Path.basename: the last component of the key
Basename(key) ==
  LET parts == Split(key, "/") IN parts[Len(parts)]

\* S3Path.fname: the basename without its file extension
Fname(key) ==
  LET b == Basename(key)
      dots == {i \in 1..Len(b) : b[i] = "."}
  IN  IF dots = {} THEN b
      ELSE SubSeq(b, 1, (CHOOSE i \in dots : \A j \in dots : j <= i) - 1)

\* S3Path.uri; the scheme and bucket are one token
S3Uri(key) == <<"s3://bucket/">> \o key

(***************************************************************************)
(* The index (DynamoDB, through pynamodb)                                  *)
(***************************************************************************)
HasAttr(item, a) == a \in DOMAIN item

\* a write that keeps the attributes of the old item the new item does not have
DdbPutItemMerging(D, pk, sk, item) ==
  LET old == IF <<pk, sk>> \in DOMAIN D THEN D[<<pk, sk>>] ELSE item
      new == [a \in DOMAIN old \cup DOMAIN item |->
                IF a \in DOMAIN item THEN item[a] ELSE old[a]]
  IN  [k \in DOMAIN D \cup {<<pk, sk>>} |-> IF k = <<pk, sk>> THEN new ELSE D[k]]

\* PutItem (Model.save): the item is replaced as a whole
DdbPutItem(D, pk, sk, item) ==
  [k \in DOMAIN D \cup {<<pk, sk>>} |-> IF k = <<pk, sk>> THEN item ELSE D[k]]

\* a PutItem of an item that has nothing but the one attribute
DdbPutItemOnly(D, pk, sk, attr, val) ==
  DdbPutItem(D, pk, sk, [a \in {attr} |-> val])

\* UpdateItem with one SET action and no condition: edits the attribute of
\* an existing item, or adds a new item when none has the key
DdbUpdateItemSet(D, pk, sk, attr, val) ==
  LET old == IF <<pk, sk>> \in DOMAIN D THEN D[<<pk, sk>>] ELSE [a \in {} |-> 0]
      new == [a \in DOMAIN old \cup {attr} |-> IF a = attr THEN val ELSE old[a]]
  IN  DdbPutItem(D, pk, sk, new)

\* DeleteItem / batch delete
DdbDeleteItems(D, keys) == [k \in DOMAIN D \ keys |-> D[k]]

\* a Query that returns the sort keys in ascending order whatever is asked
DdbQueryAscending(D, pk, scan_index_forward) ==
  SortAsc({k[2] : k \in {x \in DOMAIN D : x[1] = pk}})

\* Query on a partition key: the sort keys, ascending or descending
DdbQuery(D, pk, scan_index_forward) ==
  LET asc == SortAsc({k[2] : k \in {x \in DOMAIN D : x[1] = pk}})
  IN  IF scan_index_forward THEN asc ELSE Reverse(asc)

\* what pynamodb reads out of an Artifact item: a missing update_at takes its
\* default get_utc_now(), a missing is_deleted False, a missing sha256 None
ArtifactItem(D, pk, sk, now) ==
  LET item == D[<<pk, sk>>]
  IN  [pk |-> pk, sk |-> sk,
       update_at |-> IF HasAttr(item, "update_at") THEN item.update_at ELSE now,
       is_deleted |-> IF HasAttr(item, "is_deleted") THEN item.is_deleted ELSE FALSE,
       sha256 |-> IF HasAttr(item, "sha256") THEN item.sha256 ELSE NoSha]


(***************************************************************************)
(* Results of a call                                                       *)
(***************************************************************************)
Returned(value) == [status |-> "ok", value |-> value]
Raised(exception) == [status |-> exception]
NoValue == <<>>

\* the outcome of an operation: the stores after it and its result
Outcome(S, D, r) == [s3 |-> S, ddb |-> D, ret |-> r]

(***************************************************************************)
(* Hybrid backend (s3_and_dynamodb_backend.Repository)                     *)
(***************************************************************************)
\* Repository.get_artifact_s3path, as a key under the artifact store directory
get_artifact_s3path(name, version) ==
  name \o <<"/">> \o encode_version_sk(version)

\* Repository._get_artifact_object on a row read from the index
h_artifact_object(row) ==
  LET version == decode_version_sk(row.sk)
  IN  [name |-> row.pk,
       version |-> version,
       update_at |-> row.update_at,
       s3uri |-> S3Uri(get_artifact_s3path(row.pk, StrArg(version))),
       sha256 |-> row.sha256]

\* the metadata put_artifact stores with the payload
final_metadata(name, artifact_sha256) ==
  [artifact_name |-> name, artifact_sha256 |-> artifact_sha256]

\* put_artifact without step 4: the content is always written
put_artifact_always_writes(S, key, artifact_sha256) == FALSE

\* put_artifact, step 4: LATEST is in storage with the same hash
put_artifact_unchanged(S, key, artifact_sha256) ==
  /\ S3Exists(S, key)
  /\ S[key].metadata[METADATA_KEY_ARTIFACT_SHA256] = artifact_sha256

\* Artifact.save of a row with the default is_deleted
h_save_artifact(D, name, sk, update_at, sha256) ==
  DdbPutItem(D, name, sk,
             [update_at |-> update_at, is_deleted |-> FALSE, sha256 |-> sha256])

h_put_artifact(S, D, now, name, content) ==
  LET artifact_sha256 == Sha256(content)
      key == get_artifact_s3path(name, StrArg(LATEST_VERSION))
      row(t) == [pk |-> name, sk |-> LATEST_VERSION, update_at |-> t,
                 sha256 |-> artifact_sha256]
  IN  IF put_artifact_unchanged(S, key, artifact_sha256)
      THEN Outcome(S, D, Returned(h_artifact_object(row(S[key].last_modified))))
      ELSE LET S2 == S3Write(S, key, content,
                             final_metadata(name, artifact_sha256), now)
               D2 == h_save_artifact(D, name, LATEST_VERSION,
                                     S2[key].last_modified, artifact_sha256)
           IN  Outcome(S2, D2, Returned(h_artifact_object(row(S2[key].last_modified))))

\* a lookup of the row that does not read its is_deleted flag
h_get_item_present(D, name, version) ==
  <<name, encode_version_sk(version)>> \in DOMAIN D

\* Repository._get_artifact_dynamodb_item: the row, or ArtifactNotFoundError
h_get_item_found(D, name, version) ==
  LET sk == encode_version_sk(version)
  IN  /\ <<name, sk>> \in DOMAIN D
      /\ ~ArtifactItem(D, name, sk, 0).is_deleted

h_get_artifact_version(D, now, name, version) ==
  IF h_get_item_found(D, name, version)
  THEN Returned(h_artifact_object(
         ArtifactItem(D, name, encode_version_sk(version), now)))
  ELSE Raised("ArtifactNotFoundError")

\* list_artifact_versions without its filter condition
h_list_no_filter(D, name, sk) == TRUE

\* the filter of list_artifact_versions: Artifact.is_deleted == False
h_list_filter(D, name, sk) ==
  /\ HasAttr(D[<<name, sk>>], "is_deleted")
  /\ D[<<name, sk>>].is_deleted = FALSE

h_list_artifact_versions(D, now, name) ==
  LET sks == SelectSeq(DdbQuery(D, name, FALSE),
                       LAMBDA sk : h_list_filter(D, name, sk))
  IN  [i \in 1..Len(sks) |-> h_artifact_object(ArtifactItem(D, name, sks[i], now))]

\* publish_artifact_version with Query(limit = 1): only the most recent sort key
h_publish_query_limit_1(D, name) == Take(DdbQuery(D, name, FALSE), 1)

\* publish_artifact_version, steps 2-3: the two most recent sort keys and the
\* next version number
h_publish_query(D, name) == Take(DdbQuery(D, name, FALSE), 2)

h_publish_plan(D, now, name) ==
  LET artifacts == h_publish_query(D, name)
  IN  IF Len(artifacts) = 0 THEN [err |-> "ArtifactNotFoundError"]
      ELSE IF Len(artifacts) = 1
      THEN [err |-> "", new_version |-> encode_version(IntArg(1)),
            sha256 |-> ArtifactItem(D, name, artifacts[1], now).sha256]
      ELSE IF ~IsIntStr(decode_version_sk(artifacts[2]))
      THEN [err |-> "ValueError"]
      ELSE [err |-> "",
            new_version |->
              IntToStr(StrToInt(decode_version_sk(artifacts[2])) + 1),
            sha256 |-> ArtifactItem(D, name, artifacts[1], now).sha256]

\* publish_artifact_version, steps 4-6, for a planned version
h_publish_write(S, D, now, name, plan) ==
  LET s3path_old == get_artifact_s3path(name, StrArg(LATEST_VERSION))
      s3path_new == get_artifact_s3path(name, StrArg(plan.new_version))
      sk == encode_version_sk(StrArg(plan.new_version))
      error == copy_to_error(S, s3path_old, s3path_new)
  IN  IF error # "" THEN Outcome(S, D, Raised(error))
      ELSE LET S2 == S3Copy(S, s3path_old, s3path_new, now)
           IN  IF plan.sha256 = NoSha
               THEN Outcome(S2, D, Raised("ValueError"))
               ELSE Outcome(S2,
                      h_save_artifact(D, name, sk, S2[s3path_new].last_modified,
                                      plan.sha256),
                      Returned(h_artifact_object(
                        [pk |-> name, sk |-> sk,
                         update_at |-> S2[s3path_new].last_modified,
                         sha256 |-> plan.sha256])))

h_publish_artifact_version(S, D, now, name) ==
  LET plan == h_publish_plan(D, now, name)
  IN  IF plan.err # "" THEN Outcome(S, D, Raised(plan.err))
      ELSE h_publish_write(S, D, now, name, plan)

\* delete_artifact_version: Artifact.new(name, version).update(is_deleted = True)
h_delete_artifact_version(S, D, name, version) ==
  Outcome(S,
          DdbUpdateItemSet(D, name, encode_version_sk(version), "is_deleted", TRUE),
          Returned(NoValue))


\* Alias.random_artifact / Alias._version_weight for a draw of random.randint(1, 100)
version_weight(secondary_version_weight) ==
  IF secondary_version_weight = NoWeight THEN 100
  ELSE 100 - secondary_version_weight

random_artifact(alias, draw) ==
  IF draw <= version_weight(alias.secondary_version_weight)
  THEN alias.version_s3uri
  ELSE alias.secondary_version_s3uri

\* a put_alias that saves the alias before it looks for the secondary
\* version: when it raises, the record (saved) is in the store
put_alias_raise_after_save(S, D, saved, exception) ==
  Outcome(saved.s3, saved.ddb, Raised(exception))

\* put_alias raises ArtifactNotFoundError for the secondary version: the
\* record (saved) is written by the statements after the raise, so the
\* stores are as they were
put_alias_raise(S, D, saved, exception) == Outcome(S, D, Raised(exception))

\* put_alias, steps 1-3: the exception the argument checks raise, or ""
\* (same_version: version == secondary_version after encode_version)
put_alias_invalid(alias, secondary_version, weight, same_version) ==
  IF Contains(alias, "-") THEN "ValueError"
  ELSE IF secondary_version.t = "none" THEN ""
  ELSE IF weight.t # "int" THEN "TypeError"
  ELSE IF ~(0 <= weight.v /\ weight.v < 100) THEN "ValueError"
  ELSE IF same_version THEN "ValueError"
  ELSE ""

\* the secondary_version_weight argument as it is stored: None or the int
WeightValue(weight) == IF weight.t = "none" THEN NoWeight ELSE weight.v

\* dynamodb.Alias.new followed by save: the item written for an alias. The
\* weight is stored as it was passed, with or without a secondary version;
\* an attribute that is None is not written
AliasItem(now, version, secondary_version, weight) ==
  LET attrs == {"update_at", "version"}
                 \cup (IF secondary_version.t = "none" THEN {}
                       ELSE {"secondary_version"})
                 \cup (IF weight.t = "none" THEN {}
                       ELSE {"secondary_version_weight"})
  IN  [a \in attrs |->
         IF a = "update_at" THEN now
         ELSE IF a = "version" THEN encode_version_sk(version)
         ELSE IF a = "secondary_version" THEN encode_version_sk(secondary_version)
         ELSE WeightValue(weight)]

\* Repository._get_alias_object on an alias item read from (or written to) the index
h_alias_object(pk, sk, item) ==
  LET name == decode_alias_pk(pk)
      version == LStripZeros(item.version)
      has2 == HasAttr(item, "secondary_version")
      secondary == IF has2 THEN LStripZeros(item.secondary_version) ELSE NoVersion
  IN  [name |-> name,
       alias |-> sk,
       update_at |-> item.update_at,
       version |-> version,
       secondary_version |-> secondary,
       secondary_version_weight |->
         IF HasAttr(item, "secondary_version_weight")
         THEN item.secondary_version_weight ELSE NoWeight,
       version_s3uri |-> S3Uri(get_artifact_s3path(name, StrArg(version))),
       secondary_version_s3uri |->
         IF has2 THEN S3Uri(get_artifact_s3path(name, StrArg(secondary)))
         ELSE NoVersion]

h_put_alias(S, D, now, name, alias, version, secondary_version, weight) ==
  LET invalid == put_alias_invalid(alias, secondary_version, weight,
                    encode_version(version) = encode_version(secondary_version))
      v == StrArg(encode_version(version))
      sv == IF secondary_version.t = "none" THEN NoneArg
            ELSE StrArg(encode_version(secondary_version))
  IN  IF invalid # "" THEN Outcome(S, D, Raised(invalid))
      ELSE IF ~h_get_item_found(D, name, v)
      THEN Outcome(S, D, Raised("ArtifactNotFoundError"))
      ELSE LET item == AliasItem(now, v, sv, weight)
               saved == Outcome(S,
                          DdbPutItem(D, encode_alias_pk(name), alias, item),
                          Returned(h_alias_object(encode_alias_pk(name), alias, item)))
           IN  IF sv.t # "none" /\ ~h_get_item_found(D, name, sv)
               THEN put_alias_raise(S, D, saved, "ArtifactNotFoundError")
               ELSE IF sv.t # "none" /\ encode_version_sk(v) = encode_version_sk(sv)
               THEN Outcome(S, D, Raised("ValueError"))
               ELSE saved

\* a get_alias that looks the versions of the alias up and raises when one
\* of them is not live
h_get_alias_live(D, name, alias) ==
  LET pk == encode_alias_pk(name)
      item == D[<<pk, alias>>]
  IN  IF <<pk, alias>> \notin DOMAIN D THEN Raised("AliasNotFoundError")
      ELSE IF ~h_get_item_found(D, name, StrArg(LStripZeros(item.version)))
      THEN Raised("AliasNotFoundError")
      ELSE Returned(h_alias_object(pk, alias, item))

h_get_alias(D, name, alias) ==
  LET pk == encode_alias_pk(name)
  IN  IF <<pk, alias>> \in DOMAIN D
      THEN Returned(h_alias_object(pk, alias, D[<<pk, alias>>]))
      ELSE Raised("AliasNotFoundError")

h_list_aliases(D, name) ==
  LET pk == encode_alias_pk(name)
      sks == DdbQuery(D, pk, TRUE)
  IN  [i \in 1..Len(sks) |-> h_alias_object(pk, sks[i], D[<<pk, sks[i]>>])]

\* delete_alias: Alias.new(name, alias).delete()
h_delete_alias(S, D, name, alias) ==
  Outcome(S, DdbDeleteItems(D, {<<encode_alias_pk(name), alias>>}),
          Returned(NoValue))

\* purge_artifact_versions: the records of artifact_list[keep_last_n + 1:]
\* whose update_at is before the cutoff
h_purge_candidates(D, now, name, keep_last_n, purge_older_than_secs) ==
  LET artifact_list == h_list_artifact_versions(D, now, name)
      expire == now - purge_older_than_secs
      rest == SubSeq(artifact_list, keep_last_n + 2, Len(artifact_list))
  IN  SelectSeq(rest, LAMBDA artifact : artifact.update_at < expire)

RECURSIVE h_delete_each(_, _, _)
h_delete_each(D, name, artifacts) ==
  IF artifacts = <<>> THEN D
  ELSE h_delete_each(
         h_delete_artifact_version(EmptyStore, D, name,
                                   StrArg(Head(artifacts).version)).ddb,
         name, Tail(artifacts))

h_purge_artifact_versions(S, D, now, name, keep_last_n, purge_older_than_secs) ==
  LET deleted_artifact_list ==
        h_purge_candidates(D, now, name, keep_last_n, purge_older_than_secs)
  IN  Outcome(S, h_delete_each(D, name, deleted_artifact_list),
              Returned([purge_time |-> now, deleted |-> deleted_artifact_list]))

\* purge_artifact: the storage directory of the name, then its rows and its alias rows
h_purge_artifact(S, D, name) ==
  Outcome(S3DeleteDir(S, name \o <<"/">>),
          DdbDeleteItems(D, {k \in DOMAIN D :
                               k[1] = name \/ k[1] = encode_alias_pk(name)}),
          Returned(NoValue))


(***************************************************************************)
(* Object-store-only backend (s3_only_backend.Repository)                  *)
(***************************************************************************)
\* Repository._get_artifact_s3dir
s_artifact_s3dir(name) == name \o <<"/">>

\* Repository._get_artifact_s3path (encode_filename must not raise)
s_artifact_s3path(name, version) ==
  s_artifact_s3dir(name)
    \o <<"v", "e", "r", "s", "i", "o", "n", "s", "/">> \o encode_filename(version)

\* Repository._get_alias_s3path
s_alias_s3path(name, alias) ==
  s_artifact_s3dir(name)
    \o <<"a", "l", "i", "a", "s", "e", "s", "/">> \o alias
    \o <<".", "j", "s", "o", "n">>

HasSha(S, key) == METADATA_KEY_ARTIFACT_SHA256 \in DOMAIN S[key].metadata

\* the Artifact record built from the object at a key
s_artifact_record(S, name, version, key) ==
  [name |-> name,
   version |-> version,
   update_at |-> S[key].last_modified,
   s3uri |-> S3Uri(key),
   sha256 |-> S[key].metadata[METADATA_KEY_ARTIFACT_SHA256]]

\* Repository._get_artifact_object / get_artifact_version
s_get_artifact_version(S, name, version) ==
  IF ~encode_filename_ok(version) THEN Raised("ValueError")
  ELSE LET key == s_artifact_s3path(name, version)
       IN  IF ~S3Exists(S, key) THEN Raised("ArtifactNotFoundError")
           ELSE IF ~HasSha(S, key) THEN Raised("KeyError")
           ELSE Returned(s_artifact_record(S, name, s3only_encode_version(version), key))

s_put_artifact(S, D, now, name, content) ==
  LET artifact_sha256 == Sha256(content)
      key == s_artifact_s3path(name, StrArg(LATEST_VERSION))
  IN  IF put_artifact_unchanged(S, key, artifact_sha256)
      THEN Outcome(S, D, Returned(s_artifact_record(S, name, LATEST_VERSION, key)))
      ELSE LET S2 == S3Write(S, key, content,
                             final_metadata(name, artifact_sha256), now)
           IN  Outcome(S2, D, Returned(s_artifact_record(S2, name, LATEST_VERSION, key)))

\* the first exception the list comprehension of list_artifact_versions raises, or ""
RECURSIVE s_list_error(_, _)
s_list_error(S, keys) ==
  IF keys = <<>> THEN ""
  ELSE LET d == decode_filename(Fname(Head(keys)))
       IN  IF ~d.ok THEN d.err
           ELSE IF ~HasSha(S, Head(keys)) THEN "KeyError"
           ELSE s_list_error(S, Tail(keys))

s_list_artifact_versions(S, name) ==
  LET keys == S3IterObjects(S, s_artifact_s3dir(name))
      err == s_list_error(S, keys)
  IN  IF err # "" THEN Raised(err)
      ELSE Returned([i \in 1..Len(keys) |->
             s_artifact_record(S, name, decode_filename(Fname(keys[i])).v, keys[i])])

\* publish_artifact_version: the first two keys under the artifact directory
s_publish_listing(S, name) == Take(S3IterObjects(S, s_artifact_s3dir(name)), 2)

\* publish_artifact_version: LATEST has the content of the previous version
s_publish_same_etag(S, s3path_previous, s3path_latest) ==
  S3ETag(S, s3path_previous) = S3ETag(S, s3path_latest)

\* copy_to of LATEST to the new version, and the record of the copy
s_publish_copy(S, D, now, name, new_version) ==
  LET s3path_latest == s_artifact_s3path(name, StrArg(LATEST_VERSION))
      s3path_new == s_artifact_s3path(name, StrArg(new_version))
      error == copy_to_error(S, s3path_latest, s3path_new)
  IN  IF error # "" THEN Outcome(S, D, Raised(error))
      ELSE LET S2 == S3Copy(S, s3path_latest, s3path_new, now)
           IN  Outcome(S2, D,
                       Returned(s_artifact_record(S2, name, new_version, s3path_new)))

\* the version publish_artifact_version is about to create or return, the
\* listing being what it is: [err] or [err = "", previous_version, new_version]
s_publish_plan(S, name) ==
  LET s3path_list == s_publish_listing(S, name)
      n == Len(s3path_list)
  IN  IF n = 0 THEN [err |-> "ArtifactNotFoundError"]
      ELSE IF n = 1 THEN [err |-> "", n |-> 1, new_version |-> <<"1">>]
      ELSE LET d == decode_filename(Fname(s3path_list[2]))
           IN  IF ~d.ok THEN [err |-> d.err]
               ELSE IF ~IsIntStr(d.v) THEN [err |-> "ValueError"]
               ELSE [err |-> "", n |-> 2,
                     previous_version |-> d.v,
                     s3path_previous |-> s3path_list[2],
                     new_version |-> IntToStr(StrToInt(d.v) + 1)]

s_publish_artifact_version(S, D, now, name) ==
  LET plan == s_publish_plan(S, name)
      s3path_latest == s_artifact_s3path(name, StrArg(LATEST_VERSION))
  IN  IF plan.err # "" THEN Outcome(S, D, Raised(plan.err))
      ELSE IF plan.n = 1 THEN s_publish_copy(S, D, now, name, plan.new_version)
      ELSE IF ~S3Exists(S, s3path_latest) THEN Outcome(S, D, Raised("ClientError"))
      ELSE IF s_publish_same_etag(S, plan.s3path_previous, s3path_latest)
      THEN IF ~HasSha(S, plan.s3path_previous) THEN Outcome(S, D, Raised("KeyError"))
           ELSE Outcome(S, D, Returned(s_artifact_record(
                  S, name, plan.previous_version, plan.s3path_previous)))
      ELSE s_publish_copy(S, D, now, name, plan.new_version)

\* delete_artifact_version: the object is deleted
s_delete_artifact_version(S, D, name, version) ==
  IF ~encode_filename_ok(version) THEN Outcome(S, D, Raised("ValueError"))
  ELSE Outcome(S3Delete(S, s_artifact_s3path(name, version)), D, Returned(NoValue))

\* get_latest_published_artifact_version_number
s_get_latest_published_artifact_version_number(S, name) ==
  LET s3path_list == Take(S3IterObjects(S, s_artifact_s3dir(name)), 2)
  IN  IF Len(s3path_list) < 2 THEN Returned(0)
      ELSE LET d == decode_filename(Fname(s3path_list[2]))
           IN  IF ~d.ok THEN Raised(d.err)
               ELSE IF ~IsIntStr(d.v) THEN Raised("ValueError")
               ELSE Returned(StrToInt(d.v))


\* validate_alias_name: the exception it raises, or "" (alias[0] of an empty
\* name raises IndexError)
IsAlpha(c) == c \notin {"-", ".", "/", "_", ","} /\ ~IsDigit(c)

validate_alias_name(alias) ==
  IF alias = LATEST_VERSION THEN "ValueError"
  ELSE IF Contains(alias, "-") THEN "ValueError"
  ELSE IF alias = <<>> THEN "IndexError"
  ELSE IF ~IsAlpha(alias[1]) THEN "ValueError"
  ELSE ""

\* json.dumps(alias_obj.to_dict()): the fields in order, None as null
JsonField(x) == IF x = NoVersion THEN <<"null">> ELSE x

JsonDumps(doc) ==
  doc.name \o <<",">> \o doc.alias \o <<",">> \o <<"unknown">> \o <<",">>
    \o doc.version \o <<",">> \o JsonField(doc.secondary_version) \o <<",">>
    \o (IF doc.secondary_version_weight = NoWeight THEN <<"null">>
        ELSE IntToStr(doc.secondary_version_weight)) \o <<",">>
    \o doc.version_s3uri \o <<",">> \o JsonField(doc.secondary_version_s3uri)

\* Alias.from_dict(json.loads(text)), with update_at taken from the object
JsonLoads(text, last_modified) ==
  LET f == Split(text, ",")
      opt(x) == IF x = <<"null">> THEN NoVersion ELSE x
  IN  [name |-> f[1],
       alias |-> f[2],
       update_at |-> last_modified,
       version |-> f[4],
       secondary_version |-> opt(f[5]),
       secondary_version_weight |->
         IF f[6] = <<"null">> THEN NoWeight ELSE StrToInt(f[6]),
       version_s3uri |-> f[7],
       secondary_version_s3uri |-> opt(f[8])]

\* Repository._get_alias_object / get_alias
s_get_alias(S, name, alias) ==
  LET key == s_alias_s3path(name, alias)
  IN  IF ~S3Exists(S, key) THEN Raised("AliasNotFoundError")
      ELSE Returned(JsonLoads(S[key].body, S[key].last_modified))

s_put_alias(S, D, now, name, alias, version, secondary_version, weight) ==
  LET invalid == put_alias_invalid(alias, secondary_version, weight,
                    s3only_encode_version(version)
                      = s3only_encode_version(secondary_version))
      v == s3only_encode_version(version)
      has2 == secondary_version.t # "none"
      sv == IF has2 THEN s3only_encode_version(secondary_version) ELSE NoVersion
  IN  IF invalid # "" THEN Outcome(S, D, Raised(invalid))
      ELSE IF ~encode_filename_ok(StrArg(v)) THEN Outcome(S, D, Raised("ValueError"))
      ELSE IF ~S3Exists(S, s_artifact_s3path(name, StrArg(v)))
      THEN Outcome(S, D, Raised("ArtifactNotFoundError"))
      ELSE IF has2 /\ ~encode_filename_ok(StrArg(sv))
      THEN Outcome(S, D, Raised("ValueError"))
      ELSE LET alias_obj ==
                 [name |-> name,
                  alias |-> alias,
                  update_at |-> now,
                  version |-> v,
                  secondary_version |-> sv,
                  secondary_version_weight |-> WeightValue(weight),
                  version_s3uri |-> S3Uri(s_artifact_s3path(name, StrArg(v))),
                  secondary_version_s3uri |->
                    IF has2 THEN S3Uri(s_artifact_s3path(name, StrArg(sv)))
                    ELSE NoVersion]
               key == s_alias_s3path(name, alias)
               written == Outcome(
                            S3Write(S, key, JsonDumps(alias_obj), [m \in {} |-> 0], now),
                            D, Returned(alias_obj))
           IN  IF has2 /\ ~S3Exists(S, s_artifact_s3path(name, StrArg(sv)))
               THEN put_alias_raise(S, D, written, "ArtifactNotFoundError")
               ELSE written

\* list_aliases: one record per object under the aliases directory
s_list_aliases(S, name) ==
  LET keys == S3IterObjects(S, s_artifact_s3dir(name)
                                 \o <<"a", "l", "i", "a", "s", "e", "s">>)
  IN  Returned([i \in 1..Len(keys) |->
                  JsonLoads(S[keys[i]].body, S[keys[i]].last_modified)])

s_delete_alias(S, D, name, alias) ==
  Outcome(S3Delete(S, s_alias_s3path(name, alias)), D, Returned(NoValue))

\* purge_artifact: the directory of the name
s_purge_artifact(S, D, name) ==
  Outcome(S3DeleteDir(S, s_artifact_s3dir(name)), D, Returned(NoValue))


(***************************************************************************)
(* The repository as a state machine: calls made one after the other       *)
(***************************************************************************)
\* the arguments the calls are made with
Names == {<<"a">>}
AliasNames == {<<"p">>, <<"q", "_", "1">>}
DeleteVersionArgs == {NoneArg} \cup {IntArg(n) : n \in 1..MaxVersion}
AliasVersionArgs == {NoneArg, IntArg(1)}
KeepLastN == {0, 1}
PurgeOlderThanSecs == {0, 1}

\* the callers whose calls of publish_artifact_version run step by step, and a
\* call that has not started
Publishers == {"p1", "p2"}
IdleCall == [pc |-> "idle", name |-> <<>>, plan |-> <<>>, listed |-> <<>>,
             head |-> <<>>, ret |-> <<>>]

Init ==
  /\ backend \in {S3_ONLY, S3_AND_DYNAMODB}
  /\ s3 = EmptyStore
  /\ ddb = EmptyStore
  /\ clock = 0
  /\ ret = [op |-> "init", status |-> "ok", value |-> NoValue]
  /\ hist = [lastPublished |-> 0, created |-> {}]
  /\ call = [of |-> [p \in Publishers |-> IdleCall], copies |-> <<>>, saves |-> <<>>]

\* the stores and the result after a call
Apply(op, out) ==
  /\ s3' = out.s3
  /\ ddb' = out.ddb
  /\ ret' = [op |-> op,
             status |-> out.ret.status,
             value |-> IF out.ret.status = "ok" THEN out.ret.value ELSE NoValue]
  /\ UNCHANGED <<backend, clock, call>>

put_artifact(S, D, now, name, content) ==
  IF backend = S3_ONLY THEN s_put_artifact(S, D, now, name, content)
  ELSE h_put_artifact(S, D, now, name, content)

PutArtifact(name, content) ==
  /\ Apply("put_artifact", put_artifact(s3, ddb, clock, name, content))
  /\ UNCHANGED hist

publish_artifact_version(S, D, now, name) ==
  IF backend = S3_ONLY THEN s_publish_artifact_version(S, D, now, name)
  ELSE h_publish_artifact_version(S, D, now, name)

\* the version number a call of publish_artifact_version would create now
\* (0 when it raises before it has one)
PublishTarget(name) ==
  LET plan == IF backend = S3_ONLY THEN s_publish_plan(s3, name)
              ELSE h_publish_plan(ddb, clock, name)
  IN  IF plan.err = "" THEN StrToInt(plan.new_version) ELSE 0

PublishArtifactVersion(name) ==
  LET out == publish_artifact_version(s3, ddb, clock, name)
      made == out.ret.status = "ok" /\ out.s3 # s3
  IN  /\ PublishTarget(name) <= MaxVersion
      /\ Apply("publish_artifact_version", out)
      /\ hist' = IF out.ret.status = "ok"
                 THEN [lastPublished |-> StrToInt(out.ret.value.version),
                       created |-> IF made
                                   THEN hist.created \cup {out.ret.value.version}
                                   ELSE hist.created]
                 ELSE hist

delete_artifact_version(S, D, name, version) ==
  IF backend = S3_ONLY THEN s_delete_artifact_version(S, D, name, version)
  ELSE h_delete_artifact_version(S, D, name, version)

DeleteArtifactVersion(name, version) ==
  /\ Apply("delete_artifact_version", delete_artifact_version(s3, ddb, name, version))
  /\ UNCHANGED hist

put_alias(S, D, now, name, alias, version, secondary_version, weight) ==
  IF backend = S3_ONLY
  THEN s_put_alias(S, D, now, name, alias, version, secondary_version, weight)
  ELSE h_put_alias(S, D, now, name, alias, version, secondary_version, weight)

PutAlias(name, alias, version, secondary_version, weight) ==
  /\ Apply("put_alias",
           put_alias(s3, ddb, clock, name, alias, version, secondary_version, weight))
  /\ UNCHANGED hist

delete_alias(S, D, name, alias) ==
  IF backend = S3_ONLY THEN s_delete_alias(S, D, name, alias)
  ELSE h_delete_alias(S, D, name, alias)

DeleteAlias(name, alias) ==
  /\ Apply("delete_alias", delete_alias(s3, ddb, name, alias))
  /\ UNCHANGED hist

PurgeArtifactVersions(name, keep_last_n, purge_older_than_secs) ==
  /\ backend = S3_AND_DYNAMODB
  /\ Apply("purge_artifact_versions",
           h_purge_artifact_versions(s3, ddb, clock, name, keep_last_n,
                                     purge_older_than_secs))
  /\ UNCHANGED hist

purge_artifact(S, D, name) ==
  IF backend = S3_ONLY THEN s_purge_artifact(S, D, name)
  ELSE h_purge_artifact(S, D, name)

\* the history of a name starts again when the name is purged
PurgeArtifact(name) ==
  /\ Apply("purge_artifact", purge_artifact(s3, ddb, name))
  /\ hist' = [lastPublished |-> 0, created |-> {}]

\* a second passes
Tick ==
  /\ clock < MaxClock
  /\ clock' = clock + 1
  /\ UNCHANGED <<backend, s3, ddb, ret, hist, call>>

\* the calls of one caller, one after the other
Calls ==
  \/ \E name \in Names, content \in Contents : PutArtifact(name, content)
  \/ \E name \in Names : PublishArtifactVersion(name)
  \/ \E name \in Names, version \in DeleteVersionArgs :
       DeleteArtifactVersion(name, version)
  \/ \E name \in Names, alias \in AliasNames, version \in AliasVersionArgs :
       PutAlias(name, alias, version, NoneArg, NoneArg)
  \/ \E name \in Names, alias \in AliasNames : DeleteAlias(name, alias)
  \/ \E name \in Names, keep_last_n \in KeepLastN,
        purge_older_than_secs \in PurgeOlderThanSecs :
       PurgeArtifactVersions(name, keep_last_n, purge_older_than_secs)
  \/ \E name \in Names : PurgeArtifact(name)

Next == Calls \/ Tick

Spec == Init /\ [][Next]_vars

\* the same calls, all made within one second
SpecNoTick == Init /\ [][Calls]_vars

\* the calls that write or remove artifact versions, and the clock
ArtifactCalls ==
  \/ \E name \in Names, content \in Contents : PutArtifact(name, content)
  \/ \E name \in Names : PublishArtifactVersion(name)
  \/ \E name \in Names, version \in DeleteVersionArgs :
       DeleteArtifactVersion(name, version)
  \/ \E name \in Names, keep_last_n \in KeepLastN,
        purge_older_than_secs \in PurgeOlderThanSecs :
       PurgeArtifactVersions(name, keep_last_n, purge_older_than_secs)
  \/ \E name \in Names : PurgeArtifact(name)
  \/ Tick

SpecArtifact == Init /\ [][ArtifactCalls]_vars

\* the arguments put_alias is called with when aliases split traffic: a
\* name, the reserved name, a name with a hyphen; a version as None, as an
\* int and as a zero-padded str; a weight as None, in range and out of range
AliasNameArgs == {<<"p">>, LATEST_VERSION, <<"p", "-", "q">>}
VersionArgs == {NoneArg, IntArg(1), StrArg(ZFill(<<"1">>, VERSION_ZFILL))}
WeightArgs == {NoneArg, IntArg(30), IntArg(100)}
TheContent == <<"x">>
\* a name that starts with a digit
DigitAlias == <<"1", "p">>

\* the calls that bind aliases to versions, and the calls that make and
\* delete the versions, all made within one second
AliasCalls ==
  \/ \E name \in Names : PutArtifact(name, TheContent)
  \/ \E name \in Names : PublishArtifactVersion(name)
  \/ \E name \in Names, version \in VersionArgs :
       DeleteArtifactVersion(name, version)
  \/ \E name \in Names, alias \in AliasNameArgs, version \in VersionArgs,
        secondary_version \in VersionArgs, weight \in WeightArgs :
       PutAlias(name, alias, version, secondary_version, weight)
  \/ \E name \in Names : PutAlias(name, DigitAlias, NoneArg, NoneArg, NoneArg)
  \/ \E name \in Names, alias \in AliasNameArgs \cup {DigitAlias} :
       DeleteAlias(name, alias)

SpecAlias == Init /\ [][AliasCalls]_vars

\* the values random.randint(1, 100) can return
Draws == 1..100

get_alias(S, D, name, alias) ==
  IF backend = S3_ONLY THEN s_get_alias(S, name, alias)
  ELSE h_get_alias(D, name, alias)

\* get_alias(name, alias).random_artifact(), the draw being what it is; the
\* result holds the locator the call returned
RandomArtifact(name, alias, draw) ==
  LET got == get_alias(s3, ddb, name, alias)
  IN  /\ got.status = "ok"
      /\ Apply("random_artifact",
               Outcome(s3, ddb,
                       Returned([s3uri |-> random_artifact(got.value, draw)])))
      /\ UNCHANGED hist

\* one alias is bound and resolved again and again
TheAlias == <<"p">>

RandomCalls ==
  \/ \E name \in Names : PutArtifact(name, TheContent)
  \/ \E name \in Names : PublishArtifactVersion(name)
  \/ \E name \in Names, version \in VersionArgs,
        secondary_version \in VersionArgs, weight \in WeightArgs :
       PutAlias(name, TheAlias, version, secondary_version, weight)
  \/ \E name \in Names, draw \in Draws : RandomArtifact(name, TheAlias, draw)

SpecRandom == Init /\ [][RandomCalls]_vars


(***************************************************************************)
(* publish_artifact_version step by step: each request the call sends to   *)
(* the bucket or the table is a step, and the steps of two callers         *)
(* interleave                                                              *)
(***************************************************************************)
\* the call of a publisher moves on
Step(p, rec) == [call EXCEPT !.of[p] = rec]

Finish(p, r) == [call.of[p] EXCEPT !.pc = "done", !.ret = r]

LatestKey(name) ==
  IF backend = S3_ONLY THEN s_artifact_s3path(name, StrArg(LATEST_VERSION))
  ELSE get_artifact_s3path(name, StrArg(LATEST_VERSION))

NewKey(c) ==
  IF backend = S3_ONLY THEN s_artifact_s3path(c.name, StrArg(c.plan.new_version))
  ELSE get_artifact_s3path(c.name, StrArg(c.plan.new_version))

\* the Query of the hybrid backend (lines 846-861), the listing of the
\* object-store-only backend (lines 503-527): the version to create
PublishRead(p, name) ==
  LET c == call.of[p]
      plan == IF backend = S3_ONLY THEN s_publish_plan(s3, name)
              ELSE h_publish_plan(ddb, clock, name)
      two == backend = S3_ONLY /\ plan.err = "" /\ plan.n = 2
  IN  /\ c.pc = "idle"
      /\ PublishTarget(name) <= MaxVersion
      /\ call' = Step(p,
           IF plan.err # ""
           THEN [Finish(p, Raised(plan.err)) EXCEPT !.name = name]
           ELSE [c EXCEPT !.pc = "planned", !.name = name, !.plan = plan,
                          !.listed = IF two THEN s3[plan.s3path_previous] ELSE <<>>])
      /\ UNCHANGED <<backend, s3, ddb, clock, ret, hist>>

\* object-store-only backend, line 530: the etag the listing gave for the
\* previous version against the etag of LATEST as it is now
PublishCompare(p) ==
  LET c == call.of[p]
      latest == LatestKey(c.name)
      previous == c.plan.s3path_previous
  IN  /\ backend = S3_ONLY
      /\ c.pc = "planned"
      /\ c.plan.n = 2
      /\ call' = Step(p,
           IF ~S3Exists(s3, latest) THEN Finish(p, Raised("ClientError"))
           ELSE IF ETagOf(c.listed.body) # S3ETag(s3, latest)
           THEN [c EXCEPT !.pc = "compared"]
           ELSE IF ~S3Exists(s3, previous) THEN Finish(p, Raised("ClientError"))
           ELSE IF ~HasSha(s3, previous) THEN Finish(p, Raised("KeyError"))
           ELSE Finish(p, Returned(
                  [s_artifact_record(s3, c.name, c.plan.previous_version, previous)
                     EXCEPT !.update_at = c.listed.last_modified])))
      /\ UNCHANGED <<backend, s3, ddb, clock, ret, hist>>

\* copy_to of LATEST to the key of the new version (lines 869, 517 and 539),
\* its first request: is the new key taken?
PublishCheck(p) ==
  LET c == call.of[p]
  IN  /\ \/ backend = S3_AND_DYNAMODB /\ c.pc = "planned"
         \/ backend = S3_ONLY /\ c.pc = "planned" /\ c.plan.n = 1
         \/ backend = S3_ONLY /\ c.pc = "compared"
      /\ call' = Step(p,
           IF S3Exists(s3, NewKey(c)) THEN Finish(p, Raised("FileExistsError"))
           ELSE [c EXCEPT !.pc = "checked"])
      /\ UNCHANGED <<backend, s3, ddb, clock, ret, hist>>

\* copy_to, its second request: CopyObject
PublishCopy(p) ==
  LET c == call.of[p]
      latest == LatestKey(c.name)
      sent == [body |-> s3[latest].body, metadata |-> s3[latest].metadata,
               last_modified |-> clock]
  IN  /\ c.pc = "checked"
      /\ IF ~S3Exists(s3, latest)
         THEN /\ call' = Step(p, Finish(p, Raised("ClientError")))
              /\ s3' = s3
         ELSE /\ s3' = S3Copy(s3, latest, NewKey(c), clock)
              /\ call' = [Step(p, [c EXCEPT !.pc = "copied"]) EXCEPT
                            !.copies = Append(@, [by |-> p, key |-> NewKey(c),
                                                  sent |-> sent])]
      /\ UNCHANGED <<backend, ddb, clock, ret, hist>>

\* the HEAD request on the new key: head_object of line 871, the first read
\* of last_modified_at and metadata in lines 521-523 and 543-545
PublishHead(p) ==
  LET c == call.of[p]
      key == NewKey(c)
  IN  /\ c.pc = "copied"
      /\ call' = Step(p,
           IF ~S3Exists(s3, key) THEN Finish(p, Raised("ClientError"))
           ELSE IF backend = S3_AND_DYNAMODB
           THEN [c EXCEPT !.pc = "headed", !.head = s3[key]]
           ELSE IF ~HasSha(s3, key) THEN Finish(p, Raised("KeyError"))
           ELSE [Finish(p, Returned(s_artifact_record(s3, c.name, c.plan.new_version,
                                                      key)))
                   EXCEPT !.head = s3[key]])
      /\ UNCHANGED <<backend, s3, ddb, clock, ret, hist>>

\* hybrid backend, lines 874-882: the row of the new version is saved with
\* the hash the Query read and the timestamp the HEAD request read
PublishSave(p) ==
  LET c == call.of[p]
      sk == encode_version_sk(StrArg(c.plan.new_version))
      item == [update_at |-> c.head.last_modified, is_deleted |-> FALSE,
               sha256 |-> c.plan.sha256]
  IN  /\ backend = S3_AND_DYNAMODB
      /\ c.pc = "headed"
      /\ IF c.plan.sha256 = NoSha
         THEN /\ call' = Step(p, Finish(p, Raised("ValueError")))
              /\ ddb' = ddb
         ELSE /\ ddb' = h_save_artifact(ddb, c.name, sk, c.head.last_modified,
                                        c.plan.sha256)
              /\ call' = [Step(p, Finish(p, Returned(h_artifact_object(
                                   [pk |-> c.name, sk |-> sk,
                                    update_at |-> c.head.last_modified,
                                    sha256 |-> c.plan.sha256]))))
                            EXCEPT !.saves = Append(@, [by |-> p,
                                                        key |-> <<c.name, sk>>,
                                                        sent |-> item])]
      /\ UNCHANGED <<backend, s3, clock, ret, hist>>

\* no call of a publisher has started
AllIdle == \A p \in Publishers : call.of[p].pc = "idle"

\* a whole call of publish_artifact_version before the publishers start
PublishBefore(name) ==
  /\ AllIdle
  /\ PublishArtifactVersion(name)

\* two publishers call publish_artifact_version once each, after other
\* callers have put and published; put_artifact goes on meanwhile
ConcurrentNext ==
  \/ \E name \in Names, content \in Contents : PutArtifact(name, content)
  \/ \E name \in Names : PublishBefore(name)
  \/ \E p \in Publishers, name \in Names : PublishRead(p, name)
  \/ \E p \in Publishers : PublishCompare(p)
  \/ \E p \in Publishers : PublishCheck(p)
  \/ \E p \in Publishers : PublishCopy(p)
  \/ \E p \in Publishers : PublishHead(p)
  \/ \E p \in Publishers : PublishSave(p)
  \/ Tick

SpecConcurrent == Init /\ [][ConcurrentNext]_vars

(***************************************************************************)
(* Properties                                                              *)
(***************************************************************************)
TheName == <<"a">>

\* a successful call of publish_artifact_version is being made
PublishReturns ==
  /\ \E name \in Names : PublishArtifactVersion(name)
  /\ ret'.status = "ok"

\* C1: hybrid backend: the numbers successive successful calls of
\* publish_artifact_version return start at 1 and each is one greater than
\* the number returned before, whatever calls of put_artifact,
\* delete_artifact_version, put_alias and purge_artifact_versions come between.
C1_PublishNumbersConsecutive ==
  [][(backend = S3_AND_DYNAMODB /\ PublishReturns)
       => StrToInt(ret'.value.version) = hist.lastPublished + 1]_vars

\* C2: object-store-only backend: a version number publish_artifact_version
\* has created is never created again by a later publish_artifact_version.
C2_S3OnlyNeverRecreates ==
  [][(backend = S3_ONLY /\ PublishReturns /\ s3' # s3)
       => ret'.value.version \notin hist.created]_vars

\* the storage key of a version of a name, in the backend in use
ArtifactKey(name, version) ==
  IF backend = S3_ONLY THEN s_artifact_s3path(name, StrArg(version))
  ELSE get_artifact_s3path(name, StrArg(version))

\* the storage keys that hold versions of a name
VersionKeys(S, name) ==
  IF backend = S3_ONLY
  THEN {k \in DOMAIN S : StartsWith(k, s_artifact_s3dir(name)
                           \o <<"v", "e", "r", "s", "i", "o", "n", "s", "/">>)}
  ELSE {k \in DOMAIN S : StartsWith(k, name \o <<"/">>)}

\* the hash recorded for the version stored at a key: the object's metadata
\* in the object-store-only backend, the sha256 of its row in the hybrid one
RecordedHash(S, D, name, version) ==
  IF backend = S3_ONLY
  THEN S[ArtifactKey(name, version)].metadata[METADATA_KEY_ARTIFACT_SHA256]
  ELSE D[<<name, encode_version_sk(StrArg(version))>>].sha256

\* a version of a name is there: its object, and in the hybrid backend its
\* row, not flagged as deleted
VersionExists(S, D, name, version) ==
  /\ S3Exists(S, ArtifactKey(name, version))
  /\ backend = S3_AND_DYNAMODB => h_get_item_found(D, name, StrArg(version))

\* LATEST is the one version of the name there is
OnlyLatestExists(S, D, name) ==
  /\ VersionExists(S, D, name, LATEST_VERSION)
  /\ VersionKeys(S, name) = {ArtifactKey(name, LATEST_VERSION)}
  /\ backend = S3_AND_DYNAMODB =>
       {k \in DOMAIN D : k[1] = name} = {<<name, LATEST_VERSION>>}

\* C3: in both backends, publish_artifact_version on a name of which only
\* LATEST exists returns version "1", and version 1 then has the payload and
\* the hash LATEST had at the time of the call.
C3_PublishFirstVersion ==
  [][\A name \in Names :
       (OnlyLatestExists(s3, ddb, name) /\ PublishArtifactVersion(name))
         => /\ ret'.status = "ok"
            /\ ret'.value.version = <<"1">>
            /\ VersionExists(s3', ddb', name, <<"1">>)
            /\ s3'[ArtifactKey(name, <<"1">>)].body
                 = s3[ArtifactKey(name, LATEST_VERSION)].body
            /\ RecordedHash(s3', ddb', name, <<"1">>)
                 = RecordedHash(s3, ddb, name, LATEST_VERSION)
            /\ ret'.value.sha256 = RecordedHash(s3, ddb, name, LATEST_VERSION)]_vars

\* the numbers a version can carry within the bound, as version strings
VersionNumbers == {IntToStr(n) : n \in 1..MaxVersion}

\* payload and recorded hash of a version are after a step what they were
VersionKept(name, version) ==
  /\ VersionExists(s3', ddb', name, version)
  /\ s3'[ArtifactKey(name, version)].body = s3[ArtifactKey(name, version)].body
  /\ RecordedHash(s3', ddb', name, version) = RecordedHash(s3, ddb, name, version)

\* a step wrote nothing but the LATEST slot of the name
OnlyLatestWritten(name) ==
  /\ \A k \in (DOMAIN s3 \cup DOMAIN s3') \ {ArtifactKey(name, LATEST_VERSION)} :
       k \in DOMAIN s3 /\ k \in DOMAIN s3' /\ s3'[k] = s3[k]
  /\ \A k \in (DOMAIN ddb \cup DOMAIN ddb') \ {<<name, LATEST_VERSION>>} :
       k \in DOMAIN ddb /\ k \in DOMAIN ddb' /\ ddb'[k] = ddb[k]

\* the step is a call of put_artifact for the name
PutArtifactCalled(name) ==
  /\ ret'.op = "put_artifact"
  /\ \E content \in Contents : PutArtifact(name, content)

\* the step is a call of publish_artifact_version for the name
PublishArtifactVersionCalled(name) ==
  /\ ret'.op = "publish_artifact_version"
  /\ PublishArtifactVersion(name)

\* C4: numbered versions are immutable: a call of put_artifact or of
\* publish_artifact_version leaves the payload and the recorded hash of every
\* numbered version there is as they were, and put_artifact writes nothing
\* but the LATEST slot.
C4_NumberedVersionsImmutable ==
  [][\A name \in Names :
       /\ (PutArtifactCalled(name) \/ PublishArtifactVersionCalled(name))
            => \A version \in VersionNumbers :
                 VersionExists(s3, ddb, name, version) => VersionKept(name, version)
       /\ PutArtifactCalled(name) => OnlyLatestWritten(name)]_vars

\* LATEST of the name is in storage and the hash stored with it is the hash
\* of the content
LatestHasHashOf(name, content) ==
  /\ S3Exists(s3, ArtifactKey(name, LATEST_VERSION))
  /\ s3[ArtifactKey(name, LATEST_VERSION)].metadata[METADATA_KEY_ARTIFACT_SHA256]
       = Sha256(content)

\* version 2 has just been published from a LATEST that was put after
\* version 1 was published, and version 1 still has the other content
C4_Witness ==
  /\ ret.op = "publish_artifact_version"
  /\ ret.status = "ok"
  /\ ret.value.version = <<"2">>
  /\ VersionExists(s3, ddb, TheName, <<"1">>)
  /\ VersionExists(s3, ddb, TheName, <<"2">>)
  /\ <<"1">> \in hist.created
  /\ s3[ArtifactKey(TheName, <<"1">>)].body # s3[ArtifactKey(TheName, <<"2">>)].body
  /\ RecordedHash(s3, ddb, TheName, <<"1">>) # RecordedHash(s3, ddb, TheName, <<"2">>)
  /\ RecordedHash(s3, ddb, TheName, <<"1">>)
       = Sha256(s3[ArtifactKey(TheName, <<"1">>)].body)

\* C5: put_artifact of the content LATEST already has writes neither to
\* storage nor to the index, leaves every store as it was, and returns a
\* LATEST record with the hash stored before.
C5_PutArtifactUnchangedIsNoOp ==
  [][\A name \in Names, content \in Contents :
       (/\ ret'.op = "put_artifact"
        /\ LatestHasHashOf(name, content)
        /\ PutArtifact(name, content))
         => /\ s3' = s3
            /\ ddb' = ddb
            /\ ret'.status = "ok"
            /\ ret'.value.name = name
            /\ ret'.value.version = LATEST_VERSION
            /\ ret'.value.sha256
                 = s3[ArtifactKey(name, LATEST_VERSION)]
                     .metadata[METADATA_KEY_ARTIFACT_SHA256]]_vars

\* version 1 was published a second after LATEST was written, put_artifact
\* was called after that, and LATEST still is as it was written: the call
\* returned it without writing
C5_Witness ==
  /\ ret.op = "put_artifact"
  /\ ret.status = "ok"
  /\ VersionExists(s3, ddb, TheName, LATEST_VERSION)
  /\ VersionExists(s3, ddb, TheName, <<"1">>)
  /\ s3[ArtifactKey(TheName, <<"1">>)].last_modified = clock
  /\ s3[ArtifactKey(TheName, LATEST_VERSION)].last_modified < clock
  /\ ret.value.update_at < clock
  /\ ret.value.sha256 = RecordedHash(s3, ddb, TheName, LATEST_VERSION)

\* C6: hybrid backend: whenever put_artifact(name, content) returns, a call
\* of get_artifact_version(name) made next returns a record whose hash is
\* the hash of the content.
C6_GetAfterPutArtifact ==
  [][\A name \in Names, content \in Contents :
       (backend = S3_AND_DYNAMODB /\ PutArtifact(name, content)
          /\ ret'.status = "ok")
         => LET got == h_get_artifact_version(ddb', clock', name, NoneArg)
            IN  /\ got.status = "ok"
                /\ got.value.sha256 = Sha256(content)]_vars

\* the highest numbered version of the name in the object-store-only
\* backend, 0 when there is none
NewestNumbered(S, name) ==
  LET there == {n \in 1..MaxVersion :
                  S3Exists(S, s_artifact_s3path(name, IntArg(n)))}
  IN  IF there = {} THEN 0 ELSE CHOOSE n \in there : \A m \in there : m <= n

\* C7: object-store-only backend: publish_artifact_version, when the newest
\* numbered version has the etag of LATEST, writes nothing and returns that
\* version.
C7_S3OnlyPublishNoDuplicate ==
  [][\A name \in Names :
       LET newest == NewestNumbered(s3, name)
           latest == s_artifact_s3path(name, StrArg(LATEST_VERSION))
       IN  (/\ backend = S3_ONLY
            /\ newest > 0
            /\ S3Exists(s3, latest)
            /\ S3ETag(s3, s_artifact_s3path(name, IntArg(newest))) = S3ETag(s3, latest)
            /\ PublishArtifactVersion(name))
             => /\ s3' = s3
                /\ ret'.status = "ok"
                /\ ret'.value.version = IntToStr(newest)]_vars

\* C8: hybrid backend: a call of publish_artifact_version that returns has
\* written an index row and a payload copy that were not there, and when the
\* call before it was a publish_artifact_version that returned version n, it
\* returns version n + 1 with the same hash.
C8_HybridPublishAlwaysCreates ==
  [][\A name \in Names :
       (/\ backend = S3_AND_DYNAMODB
        /\ ret'.op = "publish_artifact_version"
        /\ ret'.status = "ok"
        /\ PublishArtifactVersion(name))
         => LET new_version == ret'.value.version
                row == <<name, encode_version_sk(StrArg(new_version))>>
                key == get_artifact_s3path(name, StrArg(new_version))
            IN  /\ row \notin DOMAIN ddb /\ row \in DOMAIN ddb'
                /\ key \notin DOMAIN s3 /\ key \in DOMAIN s3'
                /\ ddb'[row].sha256 = ret'.value.sha256
                /\ (ret.op = "publish_artifact_version" /\ ret.status = "ok")
                     => /\ StrToInt(new_version) = StrToInt(ret.value.version) + 1
                        /\ ret'.value.sha256 = ret.value.sha256]_vars

\* versions 1 and 2 were published from the same LATEST, 2 by the last call
C8_Witness ==
  /\ backend = S3_AND_DYNAMODB
  /\ ret.op = "publish_artifact_version"
  /\ ret.status = "ok"
  /\ ret.value.version = <<"2">>
  /\ hist.created = {<<"1">>, <<"2">>}
  /\ VersionExists(s3, ddb, TheName, <<"1">>)
  /\ VersionExists(s3, ddb, TheName, <<"2">>)
  /\ RecordedHash(s3, ddb, TheName, <<"1">>) = RecordedHash(s3, ddb, TheName, <<"2">>)
  /\ s3[ArtifactKey(TheName, <<"1">>)].body = s3[ArtifactKey(TheName, <<"2">>)].body

\* hybrid backend: the row of the version is there and flagged as deleted
RowDeleted(D, name, version) ==
  LET sk == encode_version_sk(version)
  IN  /\ <<name, sk>> \in DOMAIN D
      /\ HasAttr(D[<<name, sk>>], "is_deleted")
      /\ D[<<name, sk>>].is_deleted

\* hybrid backend: get_artifact_version raises ArtifactNotFoundError for the
\* version and list_artifact_versions does not return it
VersionHidden(D, now, name, version) ==
  LET listed == h_list_artifact_versions(D, now, name)
  IN  /\ h_get_artifact_version(D, now, name, version).status
           = "ArtifactNotFoundError"
      /\ \A i \in DOMAIN listed :
           listed[i].version # decode_version_sk(encode_version_sk(version))

\* hybrid backend: the version has no row
RowAbsent(D, name, version) == <<name, encode_version_sk(version)>> \notin DOMAIN D

\* C10: hybrid backend: delete_artifact_version on a version that has a row
\* leaves the row flagged as deleted; for a version whose row is flagged (or
\* is not there) get_artifact_version raises ArtifactNotFoundError and
\* list_artifact_versions does not return it; and a flagged row is live
\* again only after a put_artifact or a publish_artifact_version that
\* returns that version.
C10_SoftDeleteHides ==
  /\ [](backend = S3_AND_DYNAMODB
          => \A name \in Names, version \in DeleteVersionArgs :
               (RowDeleted(ddb, name, version) \/ RowAbsent(ddb, name, version))
                 => VersionHidden(ddb, clock, name, version))
  /\ [][\A name \in Names, version \in DeleteVersionArgs :
          /\ (/\ backend = S3_AND_DYNAMODB
               /\ ret'.op = "delete_artifact_version"
               /\ ~RowAbsent(ddb, name, version)
               /\ DeleteArtifactVersion(name, version))
               => RowDeleted(ddb', name, version)
          /\ (/\ backend = S3_AND_DYNAMODB
               /\ RowDeleted(ddb, name, version)
               /\ ~RowDeleted(ddb', name, version)
               /\ ~RowAbsent(ddb', name, version))
               => /\ ret'.status = "ok"
                  /\ ret'.value.version
                       = decode_version_sk(encode_version_sk(version))
                  /\ PutArtifactCalled(name) \/ PublishArtifactVersionCalled(name)
        ]_vars

\* version 1, published before, has just been deleted: its row keeps its
\* hash, carries the flag, and the version is hidden
C10_Witness ==
  /\ backend = S3_AND_DYNAMODB
  /\ ret.op = "delete_artifact_version"
  /\ <<"1">> \in hist.created
  /\ RowDeleted(ddb, TheName, IntArg(1))
  /\ HasAttr(ddb[<<TheName, encode_version_sk(IntArg(1))>>], "sha256")
  /\ VersionHidden(ddb, clock, TheName, IntArg(1))
  /\ Len(h_list_artifact_versions(ddb, clock, TheName)) > 0

\* the call of the publisher has returned a record
Published(p) == call.of[p].pc = "done" /\ call.of[p].ret.status = "ok"

\* the last of the writes logged for a key
LastWrite(log, key) ==
  LET at == {i \in DOMAIN log : log[i].key = key}
  IN  log[CHOOSE i \in at : \A j \in at : j <= i]

\* both publishers planned the same new version, wrote it and returned it
SameVersionWrittenTwice(p, q) ==
  /\ p # q
  /\ Published(p) /\ Published(q)
  /\ call.of[p].plan.new_version = call.of[q].plan.new_version
  /\ call.of[p].ret.value.version = call.of[p].plan.new_version
  /\ call.of[q].ret.value.version = call.of[p].plan.new_version
  /\ \E i, j \in DOMAIN call.copies :
       /\ call.copies[i].by = p /\ call.copies[j].by = q
       /\ call.copies[i].key = call.copies[j].key

\* C9: two calls of publish_artifact_version for one name are not
\* serialized: when both have read the same newest version and both have
\* returned the same new number, there is one object for that number, the
\* one the later CopyObject sent, and in the hybrid backend one row, the one
\* the later save sent.
C9_LaterWriterWins ==
  \A p, q \in Publishers :
    SameVersionWrittenTwice(p, q)
      => LET key == NewKey(call.of[p])
             row == <<call.of[p].name,
                      encode_version_sk(StrArg(call.of[p].plan.new_version))>>
         IN  /\ S3Exists(s3, key)
             /\ s3[key] = LastWrite(call.copies, key).sent
             /\ backend = S3_AND_DYNAMODB
                  => /\ row \in DOMAIN ddb
                     /\ ddb[row] = LastWrite(call.saves, row).sent

\* hybrid backend: both publishers read version 1 as the newest, both
\* returned version 2, and what the first of them copied and saved has been
\* replaced by what the second copied and saved
C9_Witness ==
  /\ backend = S3_AND_DYNAMODB
  /\ SameVersionWrittenTwice("p1", "p2")
  /\ call.of["p1"].plan.new_version = <<"2">>
  /\ Len(call.copies) = 2 /\ Len(call.saves) = 2
  /\ call.copies[1].sent # call.copies[2].sent
  /\ call.saves[1].sent # call.saves[2].sent
  /\ s3[call.copies[2].key] = call.copies[2].sent
  /\ ddb[call.saves[2].key] = call.saves[2].sent

\* the same race in the object-store-only backend
C9_WitnessS3Only ==
  /\ backend = S3_ONLY
  /\ SameVersionWrittenTwice("p1", "p2")
  /\ call.of["p1"].plan.new_version = <<"2">>
  /\ Len(call.copies) = 2
  /\ call.copies[1].sent # call.copies[2].sent
  /\ s3[call.copies[2].key] = call.copies[2].sent

\* the index row of a version argument of a name
VersionRow(name, version) == <<name, encode_version_sk(version)>>

\* C11: hybrid backend: delete_artifact_version sets the deleted flag on the
\* one index row of the version and changes nothing else: object storage is
\* as it was, every other row (version rows and alias rows) is as it was,
\* the row is there after the call, and the attributes it had other than the
\* flag (hash, timestamp) are as they were.
C11_DeleteIsSoftDeleteOnly ==
  [][\A name \in Names, version \in DeleteVersionArgs :
       (/\ backend = S3_AND_DYNAMODB
        /\ ret'.op = "delete_artifact_version"
        /\ DeleteArtifactVersion(name, version))
         => LET row == VersionRow(name, version)
            IN  /\ s3' = s3
                /\ DOMAIN ddb' = DOMAIN ddb \cup {row}
                /\ \A k \in DOMAIN ddb \ {row} : ddb'[k] = ddb[k]
                /\ RowDeleted(ddb', name, version)
                /\ row \in DOMAIN ddb
                     => /\ DOMAIN ddb'[row] = DOMAIN ddb[row] \cup {"is_deleted"}
                        /\ \A a \in DOMAIN ddb[row] \ {"is_deleted"} :
                             ddb'[row][a] = ddb[row][a]]_vars

\* version 1 has just been deleted while an alias is bound to it: its row
\* has the flag, the hash and the timestamp, its payload is in storage, the
\* LATEST row is live and the alias row is there
C11_Witness ==
  /\ backend = S3_AND_DYNAMODB
  /\ ret.op = "delete_artifact_version"
  /\ RowDeleted(ddb, TheName, IntArg(1))
  /\ DOMAIN ddb[VersionRow(TheName, IntArg(1))] = {"update_at", "is_deleted", "sha256"}
  /\ ddb[VersionRow(TheName, IntArg(1))].sha256
       = Sha256(s3[get_artifact_s3path(TheName, IntArg(1))].body)
  /\ h_get_item_found(ddb, TheName, NoneArg)
  /\ <<encode_alias_pk(TheName), <<"p">>>> \in DOMAIN ddb
  /\ ddb[<<encode_alias_pk(TheName), <<"p">>>>].version = encode_version_sk(IntArg(1))

\* the version an argument names: LATEST, or a number whatever its form
VersionNamed(a) ==
  IF a.t = "none" \/ PyStr(a) = LATEST_VERSION THEN LATEST_VERSION
  ELSE IntToStr(StrToInt(PyStr(a)))

\* the step is a call of put_alias with these arguments
PutAliasCalled(name, alias, version, secondary_version, weight) ==
  /\ ret'.op = "put_alias"
  /\ put_alias(s3, ddb, clock, name, alias, version, secondary_version,
               weight).ret.status = ret'.status
  /\ PutAlias(name, alias, version, secondary_version, weight)

\* the arguments name a secondary version and a weight that is no int or is
\* outside 0 <= w < 100, or a secondary version that is the primary version
BadSplit(version, secondary_version, weight) ==
  /\ secondary_version.t # "none"
  /\ \/ weight.t # "int"
     \/ ~(0 <= weight.v /\ weight.v < 100)
     \/ VersionNamed(version) = VersionNamed(secondary_version)

\* C12: in both backends put_alias raises for every alias name with a
\* hyphen, and for every secondary version given with a weight that is no
\* int, with a weight outside 0 <= w < 100, or equal to the primary version.
C12_PutAliasRejects ==
  [][\A name \in Names, alias \in AliasNameArgs, version \in VersionArgs,
        secondary_version \in VersionArgs, weight \in WeightArgs :
       (/\ Contains(alias, "-") \/ BadSplit(version, secondary_version, weight)
        /\ PutAliasCalled(name, alias, version, secondary_version, weight))
         => ret'.status # "ok"]_vars

\* every alias name the calls use
AllAliasNames == AliasNameArgs \cup {DigitAlias}

\* the alias name is the reserved token or does not start with a letter
ReservedOrNoLetter(alias) ==
  alias = LATEST_VERSION \/ (alias # <<>> /\ ~IsAlpha(alias[1]))

\* C13: object-store-only backend: put_alias raises for an alias name equal
\* to LATEST and for an alias name that does not start with a letter, and no
\* alias document with such a name is ever in storage.
C13_S3OnlyAliasNameRules ==
  /\ [](backend = S3_ONLY
          => \A name \in Names, alias \in AllAliasNames :
               ReservedOrNoLetter(alias)
                 => ~S3Exists(s3, s_alias_s3path(name, alias)))
  /\ [][\A name \in Names, alias \in AllAliasNames, version \in VersionArgs,
           secondary_version \in VersionArgs, weight \in WeightArgs :
          (/\ backend = S3_ONLY
           /\ ReservedOrNoLetter(alias)
           /\ PutAliasCalled(name, alias, version, secondary_version, weight))
            => ret'.status # "ok"]_vars

\* C14: a put_alias that raises has no side effects, in both backends:
\* every object of the bucket and every row of the table, the alias
\* bindings among them, is as it was before the call.
C14_RejectedPutAliasWritesNothing ==
  [][(ret'.op = "put_alias" /\ ret'.status # "ok")
       => (s3' = s3 /\ ddb' = ddb)]_vars

\* the version an argument names is live: its object is in storage, and in
\* the hybrid backend its row is there without the deleted flag
Live(S, D, name, version) ==
  IF backend = S3_ONLY THEN S3Exists(S, s_artifact_s3path(name, version))
  ELSE /\ S3Exists(S, get_artifact_s3path(name, version))
       /\ ~RowAbsent(D, name, version)
       /\ ~RowDeleted(D, name, version)

\* put_alias has just raised ArtifactNotFoundError while LATEST is live,
\* version 1 is not, and the alias p is bound to LATEST as it was
C14_Witness ==
  /\ ret.op = "put_alias"
  /\ ret.status = "ArtifactNotFoundError"
  /\ Live(s3, ddb, TheName, NoneArg)
  /\ ~Live(s3, ddb, TheName, IntArg(1))
  /\ get_alias(s3, ddb, TheName, TheAlias).status = "ok"
  /\ get_alias(s3, ddb, TheName, TheAlias).value.version = LATEST_VERSION

\* the alias names put_alias accepts in both backends
PlainAliasNames == {alias \in AllAliasNames : ~Contains(alias, "-")}

C16_StoredAliasSplitIsValid ==
  \A name \in Names, alias \in AllAliasNames :
    LET got == get_alias(s3, ddb, name, alias)
    IN  (got.status = "ok" /\ got.value.secondary_version # NoVersion)
          => /\ VersionNamed(StrArg(got.value.version))
                  # VersionNamed(StrArg(got.value.secondary_version))
             /\ 0 <= got.value.secondary_version_weight
             /\ got.value.secondary_version_weight < 100

\* the draws for which random_artifact returns the primary locator of an alias
PrimaryDraws(alias) ==
  {draw \in Draws : random_artifact(alias, draw) = alias.version_s3uri}

\* C17: for an alias with a secondary version and weight w, random_artifact
\* returns the primary locator exactly for the draws d <= 100 - w, 100 - w
\* of the 100 draws, and the secondary locator for every other draw; a call
\* changes neither object storage nor the index.
C17_RandomArtifactSplit ==
  /\ [](\A name \in Names :
          LET got == get_alias(s3, ddb, name, TheAlias)
          IN  (got.status = "ok" /\ got.value.secondary_version # NoVersion)
                => LET w == got.value.secondary_version_weight
                   IN  /\ PrimaryDraws(got.value) = {d \in Draws : d <= 100 - w}
                       /\ Cardinality(PrimaryDraws(got.value)) = 100 - w
                       /\ \A d \in Draws \ PrimaryDraws(got.value) :
                            random_artifact(got.value, d)
                              = got.value.secondary_version_s3uri)
  /\ [][\A name \in Names, draw \in Draws :
          LET got == get_alias(s3, ddb, name, TheAlias)
          IN  (/\ ret'.op = "random_artifact"
               /\ got.status = "ok"
               /\ got.value.secondary_version # NoVersion
               /\ RandomArtifact(name, TheAlias, draw))
                => /\ s3' = s3 /\ ddb' = ddb
                   /\ ret'.value.s3uri = got.value.version_s3uri
                        <=> draw <= 100 - got.value.secondary_version_weight]_vars

\* C18: for an alias put_alias has stored without a secondary version,
\* random_artifact returns the primary locator for every draw, never None.
C18_NoSecondaryAlwaysPrimary ==
  [][\A name \in Names, draw \in Draws :
       LET got == get_alias(s3, ddb, name, TheAlias)
       IN  (/\ ret'.op = "random_artifact"
            /\ got.status = "ok"
            /\ got.value.secondary_version = NoVersion
            /\ RandomArtifact(name, TheAlias, draw))
             => /\ ret'.value.s3uri = got.value.version_s3uri
                /\ ret'.value.s3uri # NoVersion]_vars

\* C19: delete_artifact_version leaves every alias record as it was, and
\* in the hybrid backend, when an alias is bound to the version deleted,
\* get_alias returns the alias with that version as before while
\* get_artifact_version of that version raises ArtifactNotFoundError.
C19_DeleteLeavesAliasDangling ==
  [][\A name \in Names, version \in DeleteVersionArgs :
       (/\ ret'.op = "delete_artifact_version"
        /\ DeleteArtifactVersion(name, version))
         => \A alias \in AliasNames :
              LET got == get_alias(s3, ddb, name, alias)
              IN  /\ get_alias(s3', ddb', name, alias) = got
                  /\ (/\ backend = S3_AND_DYNAMODB
                      /\ got.status = "ok"
                      /\ got.value.version = VersionNamed(version))
                       => h_get_artifact_version(
                            ddb', clock', name, StrArg(got.value.version)).status
                            = "ArtifactNotFoundError"]_vars

\* hybrid backend: version 1 has just been deleted, it was live when the
\* alias p was bound to it, and the alias is still bound to it
C19_Witness ==
  /\ backend = S3_AND_DYNAMODB
  /\ ret.op = "delete_artifact_version"
  /\ RowDeleted(ddb, TheName, IntArg(1))
  /\ HasAttr(ddb[VersionRow(TheName, IntArg(1))], "sha256")
  /\ h_get_alias(ddb, TheName, TheAlias).status = "ok"
  /\ h_get_alias(ddb, TheName, TheAlias).value.version = <<"1">>
  /\ h_get_artifact_version(ddb, clock, TheName, IntArg(1)).status
       = "ArtifactNotFoundError"

\* hybrid backend: the sort keys of the live numbered versions of a name
LiveNumbered(D, name) ==
  {k[2] : k \in {x \in DOMAIN D :
                   /\ x[1] = name
                   /\ x[2] # LATEST_VERSION
                   /\ ~ArtifactItem(D, x[1], x[2], 0).is_deleted}}

\* the live numbered versions purge_artifact_versions is to delete: those
\* with at least keep_last_n live numbered versions above them and with an
\* update_at before the cutoff
ToPurge(D, now, name, keep_last_n, purge_older_than_secs) ==
  {sk \in LiveNumbered(D, name) :
     /\ Cardinality({x \in LiveNumbered(D, name) :
                       StrToInt(x) > StrToInt(sk)}) >= keep_last_n
     /\ ArtifactItem(D, name, sk, now).update_at < now - purge_older_than_secs}

\* C20: hybrid backend: purge_artifact_versions(name, keep_last_n,
\* purge_older_than_secs) deletes a version if and only if it is a live
\* numbered version, not among the keep_last_n most recent live numbered
\* versions, and older than the cutoff; the rows it deletes are flagged, and
\* the LATEST row is as it was, whether LATEST is live or soft-deleted.
C20_PurgeDeletesExactlyTheOldVersions ==
  [][\A name \in Names, keep_last_n \in KeepLastN,
        purge_older_than_secs \in PurgeOlderThanSecs :
       (/\ ret'.op = "purge_artifact_versions"
        /\ PurgeArtifactVersions(name, keep_last_n, purge_older_than_secs))
         => /\ LiveNumbered(ddb, name) \ LiveNumbered(ddb', name)
                 = ToPurge(ddb, clock, name, keep_last_n, purge_older_than_secs)
            /\ \A sk \in ToPurge(ddb, clock, name, keep_last_n,
                                  purge_older_than_secs) :
                 RowDeleted(ddb', name, StrArg(sk))
            /\ <<name, LATEST_VERSION>> \in DOMAIN ddb
                 => /\ <<name, LATEST_VERSION>> \in DOMAIN ddb'
                    /\ ddb'[<<name, LATEST_VERSION>>]
                         = ddb[<<name, LATEST_VERSION>>]]_vars

\* C21: every version purge_artifact_versions purges is hard-deleted: after
\* the call neither its payload in object storage nor its index row exists;
\* the call returns the cutoff timestamp and exactly the list of the records
\* it purged (the rows the call changed).
C21_PurgeHardDeletes ==
  [][\A name \in Names :
       (/\ ret'.op = "purge_artifact_versions"
        /\ \E keep_last_n \in KeepLastN, purge_older_than_secs \in PurgeOlderThanSecs :
             PurgeArtifactVersions(name, keep_last_n, purge_older_than_secs))
         => LET deleted == ret'.value.deleted
                purged == {encode_version_sk(StrArg(deleted[i].version)) :
                             i \in 1..Len(deleted)}
            IN  /\ ret'.value.purge_time = clock
                /\ \A sk \in purged :
                     /\ ~S3Exists(s3', get_artifact_s3path(name, StrArg(sk)))
                     /\ <<name, sk>> \notin DOMAIN ddb'
                /\ purged = {k[2] : k \in {x \in DOMAIN ddb :
                                             \/ x \notin DOMAIN ddb'
                                             \/ ddb'[x] # ddb[x]}}]_vars

\* hybrid backend: the live numbered versions purge_artifact_versions keeps
\* by its documentation: those among the keep_last_n most recent live
\* numbered versions whose update_at is not before the cutoff
DocumentedKeep(D, now, name, keep_last_n, purge_older_than_secs) ==
  {sk \in LiveNumbered(D, name) :
     /\ Cardinality({x \in LiveNumbered(D, name) :
                       StrToInt(x) > StrToInt(sk)}) < keep_last_n
     /\ ArtifactItem(D, name, sk, now).update_at >= now - purge_older_than_secs}

\* C22: purge_artifact_versions keeps a numbered version only if it is
\* within the last keep_last_n versions and also not older than
\* purge_older_than_secs; every other version except LATEST is deleted.
C22_PurgeKeepsOnlyRecentAndYoung ==
  [][\A name \in Names, keep_last_n \in KeepLastN,
        purge_older_than_secs \in PurgeOlderThanSecs :
       (/\ ret'.op = "purge_artifact_versions"
        /\ PurgeArtifactVersions(name, keep_last_n, purge_older_than_secs))
         => /\ LiveNumbered(ddb', name)
                 = DocumentedKeep(ddb, clock, name, keep_last_n,
                                  purge_older_than_secs)
            /\ h_get_item_found(ddb, name, NoneArg)
                 => h_get_item_found(ddb', name, NoneArg)]_vars

(***************************************************************************)
(* Two artifact names in one repository                                    *)
(***************************************************************************)
\* Repository.get_artifact_version
get_artifact_version(S, D, now, name, version) ==
  IF backend = S3_ONLY THEN s_get_artifact_version(S, name, version)
  ELSE h_get_artifact_version(D, now, name, version)

\* Repository.list_artifact_versions
list_artifact_versions(S, D, now, name) ==
  IF backend = S3_ONLY THEN s_list_artifact_versions(S, name)
  ELSE Returned(h_list_artifact_versions(D, now, name))

\* Repository.list_aliases
list_aliases(S, D, name) ==
  IF backend = S3_ONLY THEN s_list_aliases(S, name)
  ELSE Returned(h_list_aliases(D, name))

\* the names of two artifacts; callers choose names freely, and the second
\* name is spelled as the first name's alias partition key is
TwoNames == {TheName, encode_alias_pk(TheName)}

\* artifacts of both names are put, published, aliased and purged
TwoNameCalls ==
  \/ \E name \in TwoNames : PutArtifact(name, TheContent)
  \/ \E name \in TwoNames : PublishArtifactVersion(name)
  \/ \E name \in TwoNames : PutAlias(name, TheAlias, NoneArg, NoneArg, NoneArg)
  \/ \E name \in TwoNames : DeleteArtifactVersion(name, IntArg(1))
  \/ \E name \in TwoNames : PurgeArtifact(name)

SpecTwoNames == Init /\ [][TwoNameCalls]_vars

\* what the stores hold for a name: its payloads and alias documents in
\* object storage, its version rows and its alias rows in the index
Holdings(S, D, name) ==
  [objects |-> {<<k, S[k]>> : k \in {x \in DOMAIN S :
                                        \/ StartsWith(x, s_artifact_s3dir(name))
                                        \/ StartsWith(x, name \o <<"/">>)}},
   rows |-> {<<k, D[k]>> : k \in {x \in DOMAIN D : x[1] = name}},
   aliases |-> {<<k, D[k]>> : k \in {x \in DOMAIN D : x[1] = encode_alias_pk(name)}}]

NothingHeld == [objects |-> {}, rows |-> {}, aliases |-> {}]

\* C23: after purge_artifact(name) no version payload, version row or alias
\* record of the name remains: list_artifact_versions and list_aliases are
\* empty, get_artifact_version raises ArtifactNotFoundError and get_alias
\* raises AliasNotFoundError; the versions and aliases of every other
\* artifact name are as they were.
C23_PurgeArtifactRemovesOneName ==
  [][\A name \in TwoNames :
       (/\ ret'.op = "purge_artifact"
        /\ PurgeArtifact(name))
         => /\ Holdings(s3', ddb', name) = NothingHeld
            /\ list_artifact_versions(s3', ddb', clock, name) = Returned(<<>>)
            /\ list_aliases(s3', ddb', name) = Returned(<<>>)
            /\ \A version \in {NoneArg, IntArg(1), IntArg(2)} :
                 get_artifact_version(s3', ddb', clock, name, version).status
                   = "ArtifactNotFoundError"
            /\ get_alias(s3', ddb', name, TheAlias).status = "AliasNotFoundError"
            /\ \A other \in TwoNames \ {name} :
                 Holdings(s3', ddb', other) = Holdings(s3, ddb, other)]_vars

(***************************************************************************)
(* Hybrid backend: put_artifact and publish_artifact_version request by    *)
(* request, with a caller that may stop after any request and call again   *)
(***************************************************************************)
\* the caller whose calls run step by step
TheCaller == "p1"

\* a put_artifact that saves the index row first and uploads afterwards
h_put_artifact_step_index_first(S, D, now, c) ==
  LET key == get_artifact_s3path(c.name, StrArg(LATEST_VERSION))
      artifact_sha256 == Sha256(c.plan.content)
  IN  IF c.pc = "put_checked"
      THEN [s3 |-> S,
            ddb |-> h_save_artifact(D, c.name, LATEST_VERSION, now, artifact_sha256),
            call |-> [c EXCEPT !.pc = "put_written"]]
      ELSE IF c.pc = "put_written"
      THEN [s3 |-> S3Write(S, key, c.plan.content,
                           final_metadata(c.name, artifact_sha256), now),
            ddb |-> D,
            call |-> [c EXCEPT !.pc = "put_headed"]]
      ELSE [s3 |-> S, ddb |-> D,
            call |-> [c EXCEPT !.pc = "done",
                        !.ret = Returned(h_artifact_object(
                                  [pk |-> c.name, sk |-> LATEST_VERSION,
                                   update_at |-> S[key].last_modified,
                                   sha256 |-> artifact_sha256]))]]

\* put_artifact, steps 6-9, one request at a time: write_bytes (lines
\* 755-760), head_object (763), Artifact.save (766-767)
h_put_artifact_step(S, D, now, c) ==
  LET key == get_artifact_s3path(c.name, StrArg(LATEST_VERSION))
      artifact_sha256 == Sha256(c.plan.content)
  IN  IF c.pc = "put_checked"
      THEN [s3 |-> S3Write(S, key, c.plan.content,
                           final_metadata(c.name, artifact_sha256), now),
            ddb |-> D,
            call |-> [c EXCEPT !.pc = "put_written"]]
      ELSE IF c.pc = "put_written"
      THEN [s3 |-> S, ddb |-> D,
            call |-> IF S3Exists(S, key)
                     THEN [c EXCEPT !.pc = "put_headed", !.head = S[key]]
                     ELSE [c EXCEPT !.pc = "done", !.ret = Raised("ClientError")]]
      ELSE [s3 |-> S,
            ddb |-> h_save_artifact(D, c.name, LATEST_VERSION,
                                    c.head.last_modified, artifact_sha256),
            call |-> [c EXCEPT !.pc = "done",
                        !.ret = Returned(h_artifact_object(
                                  [pk |-> c.name, sk |-> LATEST_VERSION,
                                   update_at |-> c.head.last_modified,
                                   sha256 |-> artifact_sha256]))]]

\* put_artifact, steps 1-4 (lines 727-743): the hash, and the look at LATEST
\* in object storage that ends the call when the content is unchanged
PutStart(p, name, content) ==
  LET c == call.of[p]
      key == get_artifact_s3path(name, StrArg(LATEST_VERSION))
      artifact_sha256 == Sha256(content)
      started == [c EXCEPT !.name = name, !.plan = [content |-> content]]
  IN  /\ c.pc = "idle"
      /\ call' = Step(p,
           IF put_artifact_unchanged(s3, key, artifact_sha256)
           THEN [started EXCEPT
                   !.pc = "done",
                   !.ret = Returned(h_artifact_object(
                             [pk |-> name, sk |-> LATEST_VERSION,
                              update_at |-> s3[key].last_modified,
                              sha256 |-> artifact_sha256]))]
           ELSE [started EXCEPT !.pc = "put_checked"])
      /\ UNCHANGED <<backend, s3, ddb, clock, ret, hist>>

\* the next request of a put_artifact that is under way
PutStep(p, pc) ==
  LET c == call.of[p]
      out == h_put_artifact_step(s3, ddb, clock, c)
  IN  /\ c.pc = pc
      /\ s3' = out.s3
      /\ ddb' = out.ddb
      /\ call' = Step(p, out.call)
      /\ UNCHANGED <<backend, clock, ret, hist>>

PutWrite(p) == PutStep(p, "put_checked")

PutHead(p) == PutStep(p, "put_written")

PutSave(p) == PutStep(p, "put_headed")

\* the method a call that is under way is a call of
CallOp(c) ==
  IF "content" \in DOMAIN c.plan THEN "put_artifact" ELSE "publish_artifact_version"

\* the call returns or raises, and the caller may call again
CallReturn(p) ==
  LET c == call.of[p]
  IN  /\ c.pc = "done"
      /\ ret' = [op |-> CallOp(c),
                 status |-> c.ret.status,
                 value |-> IF c.ret.status = "ok" THEN c.ret.value ELSE NoValue]
      /\ call' = Step(p, IdleCall)
      /\ UNCHANGED <<backend, s3, ddb, clock, hist>>

\* the caller stops between two requests of its call (the process dies);
\* what the call has written so far stays
CallStops(p) ==
  LET c == call.of[p]
  IN  /\ c.pc \notin {"idle", "done"}
      /\ ret' = [op |-> CallOp(c),
                 status |-> "stopped",
                 value |-> [after |-> c.pc, name |-> c.name, plan |-> c.plan]]
      /\ call' = Step(p, IdleCall)
      /\ UNCHANGED <<backend, s3, ddb, clock, hist>>

StepwiseInit ==
  /\ Init
  /\ backend = S3_AND_DYNAMODB

StepwiseNext ==
  \/ \E name \in Names, content \in Contents : PutStart(TheCaller, name, content)
  \/ PutWrite(TheCaller)
  \/ PutHead(TheCaller)
  \/ PutSave(TheCaller)
  \/ \E name \in Names : PublishRead(TheCaller, name)
  \/ PublishCheck(TheCaller)
  \/ PublishCopy(TheCaller)
  \/ PublishHead(TheCaller)
  \/ PublishSave(TheCaller)
  \/ CallReturn(TheCaller)
  \/ CallStops(TheCaller)
  \/ Tick

SpecStepwise == StepwiseInit /\ [][StepwiseNext]_vars

\* C24: hybrid backend: put_artifact and publish_artifact_version write
\* object storage before the index, so at every point of these calls, also
\* when a call stops after any of its requests, every index row has its
\* payload in object storage, and the row's timestamp is not later than the
\* payload's: the index is never ahead of storage.
C24_IndexNeverAheadOfStorage ==
  \A k \in DOMAIN ddb :
    LET key == get_artifact_s3path(k[1], StrArg(k[2]))
    IN  /\ S3Exists(s3, key)
        /\ ddb[k].update_at <= s3[key].last_modified

\* a put_artifact has uploaded new content and has not saved its row yet,
\* so that the LATEST row still has the hash of the content before, and a
\* publish_artifact_version stopped after its copy: version 1 is in object
\* storage and has no row
C24_Witness ==
  /\ call.of[TheCaller].pc \in {"put_written", "put_headed"}
  /\ <<TheName, LATEST_VERSION>> \in DOMAIN ddb
  /\ ddb[<<TheName, LATEST_VERSION>>].sha256
       # s3[get_artifact_s3path(TheName, NoneArg)].metadata[METADATA_KEY_ARTIFACT_SHA256]
  /\ S3Exists(s3, get_artifact_s3path(TheName, IntArg(1)))
  /\ <<TheName, encode_version_sk(IntArg(1))>> \notin DOMAIN ddb

\* C25: hybrid backend: when put_artifact(name, c) has stopped after its
\* storage write and before its index write, the next call, put_artifact of
\* the same name and content, repairs the state: when it returns, the index
\* holds a live LATEST row of the name whose hash is hash(c).
C25_ReplayRepairsIndex ==
  [][(/\ ret.status = "stopped"
      /\ ret.op = "put_artifact"
      /\ ret.value.after \in {"put_written", "put_headed"}
      /\ CallReturn(TheCaller)
      /\ ret'.op = "put_artifact"
      /\ ret'.status = "ok"
      /\ call.of[TheCaller].name = ret.value.name
      /\ call.of[TheCaller].plan = ret.value.plan)
       => /\ h_get_item_found(ddb', ret.value.name, NoneArg)
          /\ ddb'[<<ret.value.name, LATEST_VERSION>>].sha256
               = Sha256(ret.value.plan.content)]_vars

\* versions are put, published and soft-deleted, all within one second
VersionCalls ==
  \/ \E name \in Names, content \in Contents : PutArtifact(name, content)
  \/ \E name \in Names : PublishArtifactVersion(name)
  \/ \E name \in Names, version \in DeleteVersionArgs :
       DeleteArtifactVersion(name, version)

SpecVersions == Init /\ [][VersionCalls]_vars

\* hybrid backend: the versions list_artifact_versions returns, in its order
ListedVersions(D, now, name) ==
  LET listed == h_list_artifact_versions(D, now, name)
  IN  [i \in 1..Len(listed) |-> listed[i].version]

\* hybrid backend: the versions of a name whose row is there and not flagged
LiveVersions(D, name) ==
  {decode_version_sk(k[2]) :
     k \in {x \in DOMAIN D : x[1] = name /\ ~ArtifactItem(D, x[1], x[2], 0).is_deleted}}

\* C26: hybrid backend: list_artifact_versions(name) returns exactly the
\* live (not soft-deleted) versions of name, each once, LATEST first when it
\* is live, followed by the numbered versions in strictly decreasing numeric
\* order.
C26_HybridListingOrder ==
  backend = S3_AND_DYNAMODB =>
    \A name \in Names :
      LET versions == ListedVersions(ddb, clock, name)
      IN  /\ {versions[i] : i \in 1..Len(versions)} = LiveVersions(ddb, name)
          /\ Len(versions) = Cardinality(LiveVersions(ddb, name))
          /\ LATEST_VERSION \in LiveVersions(ddb, name)
               => versions[1] = LATEST_VERSION
          /\ \A i \in 1..Len(versions), j \in 1..Len(versions) :
               i < j => /\ versions[j] # LATEST_VERSION
                        /\ versions[i] # LATEST_VERSION
                             => StrToInt(versions[i]) > StrToInt(versions[j])

\* LATEST is soft-deleted and versions 1 and 2 are live: the listing leaves
\* LATEST out and starts with the newest numbered version
C26_Witness ==
  /\ backend = S3_AND_DYNAMODB
  /\ RowDeleted(ddb, TheName, NoneArg)
  /\ ListedVersions(ddb, clock, TheName) = <<<<"2">>, <<"1">>>>

\* object-store-only backend: the keys of the version objects of a name
VersionObjects(S, name) ==
  {k \in DOMAIN S :
     StartsWith(k, s_artifact_s3dir(name) \o <<"v", "e", "r", "s", "i", "o", "n", "s", "/">>)}

\* C27: object-store-only backend: in every state reachable by put_artifact,
\* publish_artifact_version, delete_artifact_version, put_alias and
\* delete_alias, list_artifact_versions(name) succeeds and returns exactly one
\* record per existing version object of name and nothing else, LATEST first
\* and then the numbered versions newest first.
C27_S3OnlyListingIsTheVersionObjects ==
  backend = S3_ONLY =>
    \A name \in Names :
      LET listing == s_list_artifact_versions(s3, name)
          listed == listing.value
      IN  /\ listing.status = "ok"
          /\ {listed[i].s3uri : i \in 1..Len(listed)}
               = {S3Uri(k) : k \in VersionObjects(s3, name)}
          /\ Len(listed) = Cardinality(VersionObjects(s3, name))
          /\ \A i \in 1..Len(listed), j \in 1..Len(listed) :
               i < j => /\ listed[j].version # LATEST_VERSION
                        /\ listed[i].version # LATEST_VERSION
                             => StrToInt(listed[i].version) > StrToInt(listed[j].version)

(***************************************************************************)
(* The version codecs as functions of their argument                       *)
(***************************************************************************)
\* the version numbers the codecs are applied to: the small ones, and the
\* ones next to a change in the number of digits up to the padding width
SampleVersions ==
  (0..MaxSample)
    \cup UNION {{Pow10(k) - 1, Pow10(k), Pow10(k) + 1} : k \in 1..(VERSION_ZFILL - 1)}
    \cup {Pow10(VERSION_ZFILL) - 2, Pow10(VERSION_ZFILL) - 1}

\* a version number as an int, as a decimal str and as a zero-padded str
FormsOf(n) ==
  {IntArg(n), StrArg(IntToStr(n)), StrArg(ZFill(IntToStr(n), VERSION_ZFILL))}

\* the version arguments: None, "LATEST", and every form of every number
CodecArgs ==
  {NoneArg, StrArg(LATEST_VERSION)} \cup UNION {FormsOf(n) : n \in SampleVersions}

\* Artifact.new(name, version).sk and, read back, Artifact.version
EncodeVersionSk(a) ==
  /\ ret' = [op |-> "encode_version_sk", status |-> "ok",
             value |-> [arg |-> a,
                        sk |-> encode_version_sk(a),
                        version |-> decode_version_sk(encode_version_sk(a))]]
  /\ UNCHANGED <<backend, s3, ddb, clock, hist, call>>

\* encode_filename(version) and decode_filename of the result
EncodeFilename(a) ==
  /\ encode_filename_ok(a)
  /\ ret' = [op |-> "encode_filename", status |-> "ok",
             value |-> [arg |-> a,
                        fname |-> encode_filename(a),
                        decoded |-> decode_filename(encode_filename(a))]]
  /\ UNCHANGED <<backend, s3, ddb, clock, hist, call>>

\* the artifact names the alias partition key is computed for: every string
\* of a letter, the hyphen and the underscore up to MaxNameLen, the names of
\* the unit tests, and names that end like a partition key
NameChars == {"a", "-", "_"}

SampleNames ==
  UNION {[1..k -> NameChars] : k \in 0..MaxNameLen}
    \cup {<<"a", "-", "b", "-", "c", "-", "d">>,
          <<"m", "y", "-", "a", "p", "p">>,
          <<"a", "l", "i", "a", "s">>,
          <<"-", "a", "l", "i", "a", "s">>,
          <<"a", "-", "a", "l", "i", "a", "s">>,
          <<"_", "_", "a", "-", "a", "l", "i", "a", "s">>}

\* Alias.new(name, alias).pk and, read back, Alias.name
EncodeAliasPk(name) ==
  /\ ret' = [op |-> "encode_alias_pk", status |-> "ok",
             value |-> [arg |-> name,
                        pk |-> encode_alias_pk(name),
                        name |-> decode_alias_pk(encode_alias_pk(name))]]
  /\ UNCHANGED <<backend, s3, ddb, clock, hist, call>>

CodecCalls ==
  \/ \E a \in CodecArgs : EncodeVersionSk(a)
  \/ \E a \in CodecArgs : EncodeFilename(a)
  \/ \E name \in SampleNames : EncodeAliasPk(name)

SpecCodec == Init /\ [][CodecCalls]_vars

\* the argument is a number (in any form), and the number it is
IsNumberArg(a) == a.t = "int" \/ (a.t = "str" /\ IsIntStr(a.v))

ArgNumber(a) == IF a.t = "int" THEN a.v ELSE StrToInt(a.v)

\* C28: the zero-padded version encoding preserves order: for all integers
\* a < b with 0 <= a, b < 10^6, encode(a) < encode(b) as strings; the
\* encoding is injective on that range; and an already-padded or unpadded
\* numeric string encodes to the same key as the integer. (Two encodings
\* made one after the other are compared.)
C28_SortKeyPreservesOrder ==
  [][(/\ ret.op = "encode_version_sk"
      /\ ret'.op = "encode_version_sk"
      /\ IsNumberArg(ret.value.arg)
      /\ IsNumberArg(ret'.value.arg))
       => LET a == ArgNumber(ret.value.arg)
              b == ArgNumber(ret'.value.arg)
          IN  /\ a < b => StrLess(ret.value.sk, ret'.value.sk)
              /\ a # b => ret.value.sk # ret'.value.sk
              /\ a = b => ret.value.sk = ret'.value.sk
              /\ ret'.value.sk = encode_version_sk(IntArg(b))
              /\ Len(ret'.value.sk) = VERSION_ZFILL]_vars

\* the unpadded str "10" has been encoded: its key is that of the int 10
\* and of the padded str, and it sorts after the key of 9
C28_Witness ==
  /\ ret.op = "encode_version_sk"
  /\ ret.value.arg = StrArg(<<"1", "0">>)
  /\ ret.value.sk = <<"0", "0", "0", "0", "1", "0">>
  /\ StrLess(encode_version_sk(IntArg(9)), ret.value.sk)

\* the numbers the filename encoding is stated for
InFilenameRange(n) == 1 <= n /\ n <= Pow10(VERSION_ZFILL) - 1

LatestFilename == <<"0", "0", "0", "0", "0", "0", "_", "L", "A", "T", "E", "S", "T">>

\* C29: object-store-only filename encoding: for every version n with
\* 1 <= n <= 999999, encode_filename(n) is the 6-digit zero-padded value of
\* 10^6 - n, an underscore, then the 6-digit zero-padded n (version 2 gives
\* "999998_000002"); for 1 <= a < b <= 999999, encode_filename(b) sorts before
\* encode_filename(a); encode_filename(LATEST) = "000000_LATEST" sorts before
\* the filename of every numbered version. (Two encodings made one after the
\* other are compared.)
C29_FilenameOrderIsNewestFirst ==
  /\ [](ret.op = "encode_filename" =>
          IF IsNumberArg(ret.value.arg)
          THEN LET n == ArgNumber(ret.value.arg)
               IN  InFilenameRange(n) =>
                     /\ ret.value.fname
                          = ZFill(IntToStr(1000000 - n), 6) \o <<"_">> \o ZFill(IntToStr(n), 6)
                     /\ Len(ret.value.fname) = 13
                     /\ StrLess(LatestFilename, ret.value.fname)
                     /\ n = 2 => ret.value.fname
                                   = <<"9", "9", "9", "9", "9", "8", "_",
                                       "0", "0", "0", "0", "0", "2">>
          ELSE ret.value.fname = LatestFilename)
  /\ [][(/\ ret.op = "encode_filename"
         /\ ret'.op = "encode_filename"
         /\ IsNumberArg(ret.value.arg)
         /\ IsNumberArg(ret'.value.arg)
         /\ InFilenameRange(ArgNumber(ret.value.arg))
         /\ InFilenameRange(ArgNumber(ret'.value.arg))
         /\ ArgNumber(ret.value.arg) < ArgNumber(ret'.value.arg))
          => StrLess(ret'.value.fname, ret.value.fname)]_vars

\* version 2 has been encoded
C29_Witness ==
  /\ ret.op = "encode_filename"
  /\ ret.value.arg = IntArg(2)
  /\ ret.value.fname = <<"9", "9", "9", "9", "9", "8", "_", "0", "0", "0", "0", "0", "2">>
  /\ StrLess(ret.value.fname, encode_filename(IntArg(1)))

\* the canonical unpadded form of a version argument: "LATEST", or the
\* decimal number without leading zeros
CanonicalVersion(a) ==
  IF IsNumberArg(a) THEN IntToStr(ArgNumber(a)) ELSE LATEST_VERSION

\* C30: decoding inverts encoding: for every valid version input (None,
\* "LATEST", an integer, a numeric string, an already-padded string),
\* decoding the encoded sort key yields the canonical unpadded form ("LATEST"
\* or the decimal without leading zeros); the only exception is the all-zero
\* key "000000", which decodes to the empty string.
C30_DecodeInvertsEncode ==
  ret.op = "encode_version_sk" =>
    IF ret.value.sk = <<"0", "0", "0", "0", "0", "0">>
    THEN ret.value.version = <<>>
    ELSE /\ ret.value.version = CanonicalVersion(ret.value.arg)
         /\ ret.value.version # <<>>
         /\ IsNumberArg(ret.value.arg) => Head(ret.value.version) # "0"

\* the padded str "000010" has been encoded and decoded: the zeros in front
\* are gone and the zero at the end is kept
C30_Witness ==
  /\ ret.op = "encode_version_sk"
  /\ ret.value.arg = StrArg(<<"0", "0", "0", "0", "1", "0">>)
  /\ ret.value.sk = <<"0", "0", "0", "0", "1", "0">>
  /\ ret.value.version = <<"1", "0">>

(***************************************************************************)
(* The alias partition key                                                 *)
(***************************************************************************)
\* C31: the alias partition key of an artifact name always starts with "__"
\* and ends with "-alias", and decoding it recovers the name exactly, for
\* every artifact name, including names that themselves contain hyphens
\* (e.g. "a-b-c-d") and the empty name.
C31_AliasKeyRoundTrip ==
  ret.op = "encode_alias_pk" =>
    /\ StartsWith(ret.value.pk, <<"_", "_">>)
    /\ EndsWith(ret.value.pk, <<"-", "a", "l", "i", "a", "s">>)
    /\ Len(ret.value.pk) = Len(ret.value.arg) + 8
    /\ ret.value.name = ret.value.arg

\* the key of "a-b-c-d" has been computed and read back
C31_Witness ==
  /\ ret.op = "encode_alias_pk"
  /\ ret.value.arg = <<"a", "-", "b", "-", "c", "-", "d">>
  /\ ret.value.pk = <<"_", "_", "a", "-", "b", "-", "c", "-", "d",
                      "-", "a", "l", "i", "a", "s">>
  /\ ret.value.name = <<"a", "-", "b", "-", "c", "-", "d">>

(***************************************************************************)
(* Alias rows and version rows in the index                                *)
(***************************************************************************)
\* the keys of the alias rows of the index (the rows put_alias writes), and
\* the index without them
AliasRowKeys(D) == {k \in DOMAIN D : HasAttr(D[k], "version")}

WithoutAliasRows(D) == [k \in DOMAIN D \ AliasRowKeys(D) |-> D[k]]

\* C32: hybrid backend: alias rows and artifact-version rows never share a
\* partition: for all artifact names n and m that callers may use, the alias
\* partition key of n differs from the artifact partition key m, so
\* list_artifact_versions(m), publish_artifact_version(m) and
\* purge_artifact(m) never read or delete an alias row of another artifact:
\* the two reads answer as they do on the index without alias rows, and the
\* purge leaves every alias row that is not under the alias key of m.
C32_AliasRowsHaveTheirOwnPartition ==
  /\ [](backend = S3_AND_DYNAMODB =>
          \A m \in TwoNames :
            /\ \A k \in AliasRowKeys(ddb) : k[1] # m
            /\ list_artifact_versions(s3, ddb, clock, m)
                 = list_artifact_versions(s3, WithoutAliasRows(ddb), clock, m)
            /\ publish_artifact_version(s3, ddb, clock, m).ret
                 = publish_artifact_version(s3, WithoutAliasRows(ddb), clock, m).ret)
  /\ [][\A m \in TwoNames :
          (/\ backend = S3_AND_DYNAMODB
           /\ ret'.op = "purge_artifact"
           /\ PurgeArtifact(m))
            => \A k \in AliasRowKeys(ddb) :
                 k[1] # encode_alias_pk(m) => k \in DOMAIN ddb' /\ ddb'[k] = ddb[k]]_vars

(***************************************************************************)
(* Object-store-only backend: the listing publish_artifact_version and     *)
(* get_latest_published_artifact_version_number read                       *)
(***************************************************************************)
\* C33: object-store-only backend: in every state reachable by put_artifact,
\* publish_artifact_version, delete_artifact_version, put_alias and
\* delete_alias in which LATEST and at least one numbered version exist and
\* LATEST's content differs from the newest numbered version's,
\* publish_artifact_version succeeds and creates version (highest existing
\* numbered version) + 1.
C33_S3OnlyPublishCreatesNextVersion ==
  [][\A name \in Names :
       LET newest == NewestNumbered(s3, name)
           latest == s_artifact_s3path(name, StrArg(LATEST_VERSION))
           created == s_artifact_s3path(name, IntArg(newest + 1))
       IN  (/\ backend = S3_ONLY
            /\ newest > 0
            /\ S3Exists(s3, latest)
            /\ S3ETag(s3, s_artifact_s3path(name, IntArg(newest))) # S3ETag(s3, latest)
            /\ PublishArtifactVersionCalled(name))
             => /\ ret'.status = "ok"
                /\ ret'.value.version = IntToStr(newest + 1)
                /\ ~S3Exists(s3, created)
                /\ S3Exists(s3', created)
                /\ s3'[created].body = s3[latest].body]_vars

\* C34: object-store-only backend:
\* get_latest_published_artifact_version_number(name) returns 0 if and only
\* if no numbered version of name exists, and otherwise returns the highest
\* existing numbered version, in every reachable state (including when LATEST
\* has been deleted or aliases exist for name).
C34_S3OnlyLatestPublishedNumber ==
  backend = S3_ONLY =>
    \A name \in Names :
      LET got == s_get_latest_published_artifact_version_number(s3, name)
      IN  /\ got.status = "ok"
          /\ got.value = NewestNumbered(s3, name)

(***************************************************************************)
(* put_alias replaces the binding of an alias                              *)
(***************************************************************************)
\* aliases are put with and without a secondary version, put again and
\* deleted, over the versions put_artifact and publish_artifact_version make
OverwriteCalls ==
  \/ \E name \in Names : PutArtifact(name, TheContent)
  \/ \E name \in Names : PublishArtifactVersion(name)
  \/ \E name \in Names, alias \in AliasNames, version \in VersionArgs,
        secondary_version \in AliasVersionArgs, weight \in {NoneArg, IntArg(30)} :
       PutAlias(name, alias, version, secondary_version, weight)
  \/ \E name \in Names, alias \in AliasNames : DeleteAlias(name, alias)

SpecOverwrite == Init /\ [][OverwriteCalls]_vars

\* the alias names of the records list_aliases returns
ListedAliasNames(listing) == [i \in 1..Len(listing) |-> listing[i].alias]

\* no element occurs twice in the sequence
NoDuplicates(q) == \A i \in 1..Len(q), j \in 1..Len(q) : q[i] = q[j] => i = j

\* C35: put_alias overwrites: after a successful put_alias(name, alias,
\* version=v) with no secondary version, get_alias(name, alias) returns
\* primary v with no secondary version and no secondary weight, whatever
\* binding that alias had before, and list_aliases(name) contains at most one
\* record per alias name.
C35_PutAliasOverwrites ==
  /\ [](\A name \in Names, alias \in AliasNames, version \in VersionArgs :
          LET out == put_alias(s3, ddb, clock, name, alias, version, NoneArg, NoneArg)
              got == get_alias(out.s3, out.ddb, name, alias)
              listing == list_aliases(out.s3, out.ddb, name)
          IN  /\ list_aliases(s3, ddb, name).status = "ok"
              /\ NoDuplicates(ListedAliasNames(list_aliases(s3, ddb, name).value))
              /\ out.ret.status = "ok"
                   => /\ got.status = "ok"
                      /\ got.value = out.ret.value
                      /\ VersionNamed(StrArg(got.value.version)) = VersionNamed(version)
                      /\ got.value.secondary_version = NoVersion
                      /\ got.value.secondary_version_weight = NoWeight
                      /\ listing.status = "ok"
                      /\ NoDuplicates(ListedAliasNames(listing.value))
                      /\ \E i \in 1..Len(listing.value) : listing.value[i] = got.value)
  /\ [][(/\ ret'.op = "put_alias"
         /\ ret'.status = "ok"
         /\ ret'.value.secondary_version = NoVersion
         /\ ret'.value.secondary_version_weight = NoWeight)
          => /\ get_alias(s3', ddb', ret'.value.name, ret'.value.alias)
                  = Returned(ret'.value)
             /\ NoDuplicates(ListedAliasNames(
                  list_aliases(s3', ddb', ret'.value.name).value))]_vars

\* an alias bound to LATEST and, with weight 30, to version 1 can be put
\* again with version 1 alone, and reads back without the secondary version
C35_Witness ==
  LET before == get_alias(s3, ddb, TheName, TheAlias)
      out == put_alias(s3, ddb, clock, TheName, TheAlias, IntArg(1), NoneArg, NoneArg)
      got == get_alias(out.s3, out.ddb, TheName, TheAlias)
  IN  /\ before.status = "ok"
      /\ before.value.version = LATEST_VERSION
      /\ before.value.secondary_version = <<"1">>
      /\ before.value.secondary_version_weight = 30
      /\ out.ret.status = "ok"
      /\ got.status = "ok"
      /\ got.value.version = <<"1">>
      /\ got.value.secondary_version = NoVersion

(***************************************************************************)
(* The filename codec of the object-store-only backend, there and back     *)
(***************************************************************************)
\* C36: object-store-only backend: decode_filename(encode_filename(v))
\* returns the canonical version for LATEST and for every n with
\* 1 <= n <= 999999 (given as int, unpadded or padded string), and no
\* numbered version in that range decodes to LATEST.
C36_FilenameRoundTrip ==
  ret.op = "encode_filename" =>
    IF IsNumberArg(ret.value.arg)
    THEN InFilenameRange(ArgNumber(ret.value.arg))
           => /\ ret.value.decoded.ok
              /\ ret.value.decoded.v = IntToStr(ArgNumber(ret.value.arg))
              /\ ret.value.decoded.v # LATEST_VERSION
              /\ ~StartsWith(ret.value.fname, Zeros(VERSION_ZFILL))
    ELSE /\ ret.value.decoded.ok
         /\ ret.value.decoded.v = LATEST_VERSION

\* the padded str "000010" has been encoded and decoded: the filename holds
\* the complement 999990 and decodes to "10"
C36_Witness ==
  /\ ret.op = "encode_filename"
  /\ ret.value.arg = StrArg(<<"0", "0", "0", "0", "1", "0">>)
  /\ ret.value.fname = <<"9", "9", "9", "9", "9", "0", "_", "0", "0", "0", "0", "1", "0">>
  /\ ret.value.decoded = [ok |-> TRUE, v |-> <<"1", "0">>]

(***************************************************************************)
(* Hybrid backend: the hashes of the index against the payloads            *)
(***************************************************************************)
\* no call is under way: every call that started has returned
AllReturned == \A p \in Publishers : call.of[p].pc \in {"idle", "done"}

\* the index row of a version records the hash of the payload stored for it
HashAgrees(S, D, name, version) ==
  LET key == get_artifact_s3path(name, StrArg(version))
      row == <<name, encode_version_sk(StrArg(version))>>
  IN  (row \in DOMAIN D /\ S3Exists(S, key))
        => /\ HasAttr(D[row], "sha256")
           /\ D[row].sha256 = Sha256(S[key].body)
           /\ D[row].sha256 = S[key].metadata[METADATA_KEY_ARTIFACT_SHA256]

\* C37: hybrid backend: under any interleaving of concurrent put_artifact
\* and publish_artifact_version calls on one name, once all calls have
\* returned, the hash recorded in the index for every numbered version equals
\* the hash of that version's payload in object storage.
C37_NumberedHashesAgree ==
  (backend = S3_AND_DYNAMODB /\ AllReturned)
    => \A name \in Names, version \in VersionNumbers :
         HashAgrees(s3, ddb, name, version)

(***************************************************************************)
(* Hybrid backend: two callers of put_artifact, request by request         *)
(***************************************************************************)
\* each caller runs put_artifact one request at a time; the requests of the
\* two calls interleave, and a caller whose call has returned may call again
TwoPutsNext ==
  \/ \E p \in Publishers, name \in Names, content \in Contents :
       PutStart(p, name, content)
  \/ \E p \in Publishers : PutWrite(p)
  \/ \E p \in Publishers : PutHead(p)
  \/ \E p \in Publishers : PutSave(p)
  \/ \E p \in Publishers : CallReturn(p)
  \/ Tick

SpecTwoPuts == StepwiseInit /\ [][TwoPutsNext]_vars

\* C38: hybrid backend: under any interleaving of two concurrent
\* put_artifact calls on one name with different content, once both calls
\* have returned, the hash in LATEST's index row equals the hash stored with
\* LATEST's payload in object storage (index and storage agree on LATEST).
C38_LatestHashAgreesAfterPuts ==
  AllReturned => \A name \in Names : HashAgrees(s3, ddb, name, LATEST_VERSION)

(***************************************************************************)
(* Hybrid backend: delete_artifact_version and publish_artifact_version    *)
(* on versions that have no live row                                       *)
(***************************************************************************)
\* C39: hybrid backend: delete_artifact_version(name, v) for a version that
\* has no index row creates no index row and changes no state; in particular
\* it does not change what a later publish_artifact_version(name) returns or
\* whether it raises ArtifactNotFound.
C39_DeleteOfNoRowChangesNothing ==
  [][\A name \in Names, version \in DeleteVersionArgs :
       (/\ backend = S3_AND_DYNAMODB
        /\ ret'.op = "delete_artifact_version"
        /\ VersionRow(name, version) \notin DOMAIN ddb
        /\ DeleteArtifactVersion(name, version))
         => /\ VersionRow(name, version) \notin DOMAIN ddb'
            /\ ddb' = ddb
            /\ s3' = s3
            /\ publish_artifact_version(s3', ddb', clock, name).ret
                 = publish_artifact_version(s3, ddb, clock, name).ret]_vars

\* C40: hybrid backend: publish_artifact_version(name) raises
\* ArtifactNotFoundError and writes nothing whenever name has no live LATEST
\* record, both when no row exists at all and when the LATEST row is
\* soft-deleted; it never creates a numbered version from a soft-deleted
\* LATEST.
C40_PublishNeedsLiveLatest ==
  [][\A name \in Names :
       (/\ backend = S3_AND_DYNAMODB
        /\ \/ RowAbsent(ddb, name, NoneArg)
           \/ RowDeleted(ddb, name, NoneArg)
        /\ PublishArtifactVersionCalled(name))
         => /\ ret'.status = "ArtifactNotFoundError"
            /\ s3' = s3
            /\ ddb' = ddb]_vars

====
